---- MODULE Spec2Model ----
(***************************************************************************)
(* A model of the numerical cores of Cassiopeia:                           *)
(*   - MaxCutSolver.perform_split          (solver/MaxCutSolver.py)        *)
(*   - IIDExponentialMLE                   (tools/branch_length_estimator) *)
(*                                                                         *)
(* Lists are sequences, dictionaries are functions.  Random draws (the     *)
(* embedding, the hyperplanes) and the answers of the external convex      *)
(* solver are nondeterministic choices.                                    *)
(***************************************************************************)
EXTENDS Integers, Sequences, FiniteSets, TLC

VARIABLES
    \* ---- MaxCutSolver.perform_split ----
    samples,        \* the list of samples handed to perform_split
    G,              \* the connectivity graph: [nodes : Seq, weight : pair -> Int]
    sdimension,     \* self.sdimension
    iterations,     \* self.iterations
    pc,             \* position inside perform_split
    emb,            \* node -> "unit" | "zero": the embedding vector of a node
    embIter,        \* embedding update rounds done so far
    return_cut,     \* best hyperplane cut so far (list of nodes)
    best_score,     \* its score
    planes,         \* hyperplanes tried so far
    improved,       \* the cut inside max_cut_improve_cut
    climbs,         \* single-node moves made by the hill climb
    left,           \* returned pair, first component
    right,          \* returned pair, second component
    candidate_cut,  \* history: the earliest of the highest-scoring cuts tried
    candidate_score \* history: its score

splitVars == <<samples, G, sdimension, iterations, pc, emb, embIter,
               return_cut, best_score, planes, improved, climbs, left, right,
               candidate_cut, candidate_score>>

VARIABLES
    \* ---- the tree (CassiopeiaTree) ----
    parent,                 \* node -> its parent (the root is node 1)
    states,                 \* node -> its character states (a list)
    times,                  \* node -> its time
    \* ---- IIDExponentialMLE ----
    minimum_branch_length,  \* self._minimum_branch_length, in hundredths
    mutation_rate,          \* self._mutation_rate
    log_likelihood,         \* self._log_likelihood
    solved,                 \* node -> value of r_X_t_<node> after prob.solve
    problems,               \* optimisation problems built so far
    solves,                 \* calls of prob.solve so far
    outcome                 \* how estimate_branch_lengths ended

treeVars == <<parent, states, times>>

mleVars == <<minimum_branch_length, mutation_rate, log_likelihood, solved,
             problems, solves, outcome>>

VARIABLES
    \* ---- IIDExponentialMLE.model_log_likelihood ----
    ll_rate,                \* the mutation_rate argument
    ll_results              \* the values returned by the calls so far

llVars == <<ll_rate, ll_results>>

VARIABLES
    \* ---- IIDExponentialMLEGridSearchCV ----
    minimum_branch_lengths, \* self.minimum_branch_lengths, the grid
    processes,              \* self.processes
    self_n_fold,            \* self.n_fold
    \* ---- estimate_branch_lengths and _cv_log_likelihood ----
    cv_pc,                  \* where the call is
    random_char_indices,    \* the character indices, shuffled at line 277
    n_fold,                 \* the local n_fold of _cv_log_likelihood
    split_size,             \* the local split_size
    held_out,               \* held_out_character_idxs of each split so far
    models,                 \* the IIDExponentialMLE objects of the folds
    params,                 \* the (model, train_tree, valid_tree) triples
    \* ---- the pool of _cv_log_likelihood, _fit_model ----
    fold_pc,                \* fold -> where its call of _fit_model is
    log_likelihood_folds,   \* fold -> what its call of _fit_model returned,
                            \* kept as history until the next pool is entered
    \* ---- the selection and the final fit ----
    held_out_log_likelihoods,  \* the (cv_log_likelihood, [mbl]) tuples
    grid,                   \* the local grid, self.grid at the end
    final_model,            \* the IIDExponentialMLE object of line 303
    cv_fitted,              \* self.minimum_branch_length, self.log_likelihood
    cv_outcome              \* how estimate_branch_lengths ended

gridVars == <<minimum_branch_lengths, processes, self_n_fold>>

foldVars == <<cv_pc, random_char_indices, n_fold, split_size, held_out,
              models, params>>

poolVars == <<fold_pc, log_likelihood_folds>>

selectVars == <<held_out_log_likelihoods, grid, final_model, cv_fitted,
                cv_outcome>>

VARIABLES
    \* ---- the estimators of BranchLengthEstimatorCV ----
    estimator,              \* the class of the estimator
    n_hyperparams,          \* the budget of trials of the search driver
    n_folds,                \* n_folds of CharacterLevelCV (0: no fold)
    tune_pc,                \* where estimate_branch_lengths is
    trials,                 \* the calls of _cv_metric made by self._tune
    tune_raised,            \* what self._tune raised
    best_config,            \* what self._tune returned
    final_fits,             \* calls of model.estimate_branch_lengths(tree)
    tune_fitted,            \* the attributes set on the estimator
    tune_outcome            \* how estimate_branch_lengths ended

tuneVars == <<estimator, n_hyperparams, n_folds, tune_pc, trials, tune_raised,
              best_config, final_fits, tune_fitted, tune_outcome>>

cvVars == <<gridVars, foldVars, poolVars, selectVars, tuneVars>>

VARIABLES
    \* ---- ZeroOneBLE ----
    include_missing,        \* self._include_missing
    zero_one_outcome        \* how estimate_branch_lengths ended

zoVars == <<include_missing, zero_one_outcome>>

vars == <<splitVars, treeVars, mleVars, llVars, cvVars, zoVars>>

----------------------------------------------------------------------------
(* Bounds of the model *)

MaxSamples == 3        \* at most this many samples in a split

\* The parameters <<sdimension, iterations>> the solver is built with.
SolverParameters == {<<0, 0>>, <<0, 1>>, <<1, 0>>}

\* Edge weights the connectivity graph may carry (0: no edge).
EdgeWeights == {-1, 0, 1}

----------------------------------------------------------------------------
(* Lists *)

Range(s) == {s[i] : i \in 1..Len(s)}

IsIn(x, s) == \E i \in 1..Len(s) : s[i] = x

Remove(s, x) == SelectSeq(s, LAMBDA y : y # x)

\* The number of positions of s holding x (list.count).
Count(s, x) == Cardinality({i \in 1..Len(s) : s[i] = x})

\* sorted(a) == sorted(b) for two lists
SameSorted(a, b) ==
    /\ Len(a) = Len(b)
    /\ \A x \in Range(a) \cup Range(b) : Count(a, x) = Count(b, x)

\* The list of the members of S in the order of the list order.
Sublist(order, S) == SelectSeq(order, LAMBDA y : y \in S)

----------------------------------------------------------------------------
(* The connectivity graph *)

Pairs(n) == {p \in (1..n) \X (1..n) : p[1] < p[2]}

\* The pairs of S as a list, in lexicographic order.
RECURSIVE PairList(_)
PairList(S) ==
    IF S = {} THEN <<>>
    ELSE LET p == CHOOSE x \in S : \A y \in S :
                      x[1] < y[1] \/ (x[1] = y[1] /\ x[2] <= y[2])
         IN  <<p>> \o PairList(S \ {p})

\* graph_utilities.construct_connectivity_graph: nodes = samples; the weight
\* of a pair is a finite number derived from the character matrix, 0 meaning
\* that the pair is not joined by an edge.
Graphs(smp) ==
    {[nodes |-> smp, weight |-> w,
      edges |-> SelectSeq(PairList(Pairs(Len(smp))), LAMBDA p : w[p] # 0)] :
        w \in [Pairs(Len(smp)) -> EdgeWeights]}

Edges(g) == {p \in DOMAIN g.weight : g.weight[p] # 0}

Nodes(g) == Range(g.nodes)

Weight(g, u, v) == IF u < v THEN g.weight[<<u, v>>] ELSE g.weight[<<v, u>>]

Neighbors(g, i) ==
    {j \in Nodes(g) : j # i /\ (IF i < j THEN <<i, j>> ELSE <<j, i>>) \in Edges(g)}

\* graph_utilities.check_if_cut: the edge (u, v) crosses the cut
check_if_cut(u, v, cut) == IsIn(u, cut) # IsIn(v, cut)

\* lines 170-176: the loop over the edge list es
RECURSIVE SumWeights(_, _, _)
SumWeights(g, es, cut) ==
    IF es = <<>> THEN 0
    ELSE LET e == Head(es)
         IN  (IF check_if_cut(e[1], e[2], cut) THEN g.weight[e] ELSE 0)
             + SumWeights(g, Tail(es), cut)

\* A slip of line 176: the weight is subtracted.
evaluate_cut_negated(cut, g) == 0 - SumWeights(g, g.edges, cut)

\* MaxCutSolver.evaluate_cut
evaluate_cut(cut, g) == SumWeights(g, g.edges, cut)

----------------------------------------------------------------------------
(* MaxCutSolver.perform_split *)

SplitInit ==
    /\ \E n \in 1..MaxSamples : samples = [i \in 1..n |-> i]
    /\ G \in Graphs(samples)
    /\ \E q \in SolverParameters : sdimension = q[1] /\ iterations = q[2]
    /\ pc = "start"
    /\ emb = <<>>
    /\ embIter = 0
    /\ return_cut = <<>>
    /\ best_score = 0
    /\ planes = 0
    /\ improved = <<>>
    /\ climbs = 0
    /\ left = <<>>
    /\ right = <<>>
    /\ candidate_cut = <<>>
    /\ candidate_score = 0

\* A slip of line 108: the nodes are counted instead of the edges.
NoNodes(g) == Cardinality(Nodes(g)) = 0

\* line 108: len(G.edges) == 0
NoEdges(g) == Cardinality(Edges(g)) = 0

\* lines 108-109: no edges, return (samples, [])
SplitNoEdges ==
    /\ pc = "start"
    /\ NoEdges(G)
    /\ left' = samples
    /\ right' = <<>>
    /\ pc' = "done"
    /\ UNCHANGED <<samples, G, sdimension, iterations, emb, embIter,
                   return_cut, best_score, planes, improved, climbs>>
    /\ UNCHANGED <<candidate_cut, candidate_score>>
    /\ UNCHANGED <<treeVars, mleVars, llVars>>
    /\ UNCHANGED cvVars
    /\ UNCHANGED zoVars

\* lines 111-116: every node gets a random unit vector
SplitEmbed ==
    /\ pc = "start"
    /\ ~NoEdges(G)
    /\ emb' = [i \in Nodes(G) |-> "unit"]
    /\ embIter' = 0
    /\ pc' = "embed"
    /\ UNCHANGED <<samples, G, sdimension, iterations, return_cut,
                   best_score, planes, improved, climbs, left, right>>
    /\ UNCHANGED <<candidate_cut, candidate_score>>
    /\ UNCHANGED <<treeVars, mleVars, llVars>>
    /\ UNCHANGED cvVars
    /\ UNCHANGED zoVars

\* The embeddings one update round can produce from e (lines 119-131): cm is
\* the zero vector when no neighbour contributes, and is normalised otherwise;
\* the contributions of the neighbours may also cancel.
UpdatedEmbeddings(g, e) ==
    {ne \in [Nodes(g) -> {"unit", "zero"}] :
        \A i \in Nodes(g) :
            (\A j \in Neighbors(g, i) : e[j] = "zero") => ne[i] = "zero"}

\* lines 118-131: one round of the embedding update
SplitIterate ==
    /\ pc = "embed"
    /\ embIter < iterations
    /\ emb' \in UpdatedEmbeddings(G, emb)
    /\ embIter' = embIter + 1
    /\ UNCHANGED <<samples, G, sdimension, iterations, pc, return_cut,
                   best_score, planes, improved, climbs, left, right>>
    /\ UNCHANGED <<candidate_cut, candidate_score>>
    /\ UNCHANGED <<treeVars, mleVars, llVars>>
    /\ UNCHANGED cvVars
    /\ UNCHANGED zoVars

\* lines 133-134
SplitStartPlanes ==
    /\ pc = "embed"
    /\ embIter = iterations
    /\ return_cut' = <<>>
    /\ best_score' = 0
    /\ planes' = 0
    /\ pc' = "planes"
    /\ UNCHANGED <<samples, G, sdimension, iterations, emb, embIter,
                   improved, climbs, left, right>>
    /\ UNCHANGED <<candidate_cut, candidate_score>>
    /\ UNCHANGED <<treeVars, mleVars, llVars>>
    /\ UNCHANGED cvVars
    /\ UNCHANGED zoVars

\* The cuts a random hyperplane b can give: the nodes i with dot(emb[i], b) > 0,
\* in the order of G.nodes; a zero vector is never on the positive side.
HyperplaneCuts(g, e) ==
    {Sublist(g.nodes, S) : S \in SUBSET {i \in Nodes(g) : e[i] = "unit"}}

\* The score comparison of line 143
\* A slip of line 143: a cut that only equals the best score replaces it.
BetterOrEqualCut(this_score, best) == this_score >= best

BetterCut(this_score, best) == this_score > best

\* lines 135-145: one hyperplane
SplitHyperplane ==
    /\ pc = "planes"
    /\ planes < 3 * (sdimension + 1)
    /\ \E cut \in HyperplaneCuts(G, emb) :
          LET this_score == evaluate_cut(cut, G)
          IN  /\ IF BetterCut(this_score, best_score)
                 THEN /\ return_cut' = cut
                      /\ best_score' = this_score
                 ELSE UNCHANGED <<return_cut, best_score>>
              /\ IF planes = 0 \/ this_score > candidate_score
                 THEN /\ candidate_cut' = cut
                      /\ candidate_score' = this_score
                 ELSE UNCHANGED <<candidate_cut, candidate_score>>
    /\ planes' = planes + 1
    /\ UNCHANGED <<samples, G, sdimension, iterations, pc, emb, embIter,
                   improved, climbs, left, right>>
    /\ UNCHANGED <<treeVars, mleVars, llVars>>
    /\ UNCHANGED cvVars
    /\ UNCHANGED zoVars

\* A slip of line 147: the hill climb is entered with an empty cut.
SplitStartImproveEmpty ==
    /\ pc = "planes"
    /\ planes = 3 * (sdimension + 1)
    /\ improved' = <<>>
    /\ pc' = "improve"
    /\ UNCHANGED <<samples, G, sdimension, iterations, emb, embIter,
                   return_cut, best_score, planes, climbs, left, right>>
    /\ UNCHANGED <<candidate_cut, candidate_score>>
    /\ UNCHANGED <<treeVars, mleVars, llVars>>
    /\ UNCHANGED cvVars
    /\ UNCHANGED zoVars

\* line 147: enter graph_utilities.max_cut_improve_cut with return_cut
SplitStartImprove ==
    /\ pc = "planes"
    /\ planes = 3 * (sdimension + 1)
    /\ improved' = return_cut
    /\ pc' = "improve"
    /\ UNCHANGED <<samples, G, sdimension, iterations, emb, embIter,
                   return_cut, best_score, planes, climbs, left, right>>
    /\ UNCHANGED <<candidate_cut, candidate_score>>
    /\ UNCHANGED <<treeVars, mleVars, llVars>>
    /\ UNCHANGED cvVars
    /\ UNCHANGED zoVars

\* The cut with node i moved to the other side.
Flip(cut, i) == IF IsIn(i, cut) THEN Remove(cut, i) ELSE Append(cut, i)

\* The nodes whose move to the other side strictly increases the cut score.
ImprovingNodes(g, cut) ==
    {i \in Nodes(g) : evaluate_cut(Flip(cut, i), g) > evaluate_cut(cut, g)}

\* max_cut_improve_cut: move one node whose move increases the score
SplitImproveStep ==
    /\ pc = "improve"
    /\ \E i \in ImprovingNodes(G, improved) : improved' = Flip(improved, i)
    /\ climbs' = climbs + 1
    /\ UNCHANGED <<samples, G, sdimension, iterations, pc, emb, embIter,
                   return_cut, best_score, planes, left, right>>
    /\ UNCHANGED <<candidate_cut, candidate_score>>
    /\ UNCHANGED <<treeVars, mleVars, llVars>>
    /\ UNCHANGED cvVars
    /\ UNCHANGED zoVars

\* A slip of line 151: the test is inverted.
ComplementInverted(smp, lft) == SelectSeq(smp, LAMBDA i : IsIn(i, lft))

\* lines 149-152: the samples that are not in the left set, in order
Complement(smp, lft) == SelectSeq(smp, LAMBDA i : ~IsIn(i, lft))

\* A slip of max_cut_improve_cut: the loop gives up while a move would still
\* raise the score.
SplitReturnEarly ==
    /\ pc = "improve"
    /\ left' = improved
    /\ right' = Complement(samples, improved)
    /\ pc' = "done"
    /\ UNCHANGED <<samples, G, sdimension, iterations, emb, embIter,
                   return_cut, best_score, planes, improved, climbs>>
    /\ UNCHANGED <<candidate_cut, candidate_score>>
    /\ UNCHANGED <<treeVars, mleVars, llVars>>
    /\ UNCHANGED cvVars
    /\ UNCHANGED zoVars

\* max_cut_improve_cut returns at a local optimum; lines 149-154
SplitReturn ==
    /\ pc = "improve"
    /\ ImprovingNodes(G, improved) = {}
    /\ left' = improved
    /\ right' = Complement(samples, improved)
    /\ pc' = "done"
    /\ UNCHANGED <<samples, G, sdimension, iterations, emb, embIter,
                   return_cut, best_score, planes, improved, climbs>>
    /\ UNCHANGED <<candidate_cut, candidate_score>>
    /\ UNCHANGED <<treeVars, mleVars, llVars>>
    /\ UNCHANGED cvVars
    /\ UNCHANGED zoVars

\* line 147 reached with any cut of the graph as return_cut: the cuts are
\* lists of nodes in the order of G.nodes, as lines 138-141 build them. The
\* hill climb reads neither self.sdimension nor self.iterations, which are
\* left at 0.
ClimbInit ==
    /\ \E n \in 1..MaxSamples : samples = [i \in 1..n |-> i]
    /\ G \in Graphs(samples)
    /\ sdimension = 0
    /\ iterations = 0
    /\ pc = "improve"
    /\ emb = [i \in Nodes(G) |-> "unit"]
    /\ embIter = iterations
    /\ return_cut \in {Sublist(G.nodes, S) : S \in SUBSET Nodes(G)}
    /\ best_score = evaluate_cut(return_cut, G)
    /\ planes = 3 * (sdimension + 1)
    /\ improved = return_cut
    /\ climbs = 0
    /\ left = <<>>
    /\ right = <<>>
    /\ candidate_cut = return_cut
    /\ candidate_score = best_score

ClimbNext ==
    \/ SplitImproveStep
    \/ SplitReturn

SplitNext ==
    \/ SplitNoEdges
    \/ SplitEmbed
    \/ SplitIterate
    \/ SplitStartPlanes
    \/ SplitHyperplane
    \/ SplitStartImprove
    \/ SplitImproveStep
    \/ SplitReturn

----------------------------------------------------------------------------
(* Numbers.  A solver value and a mutation rate are integers in units of   *)
(* 1e-8.  A time is the exact quotient num/den of two such integers.       *)

NumNodes == 4          \* nodes of the tree, 1..NumNodes, 1 the root

\* minimum_branch_length is counted in hundredths: 1.0 of line 106
MblOne == 100

MissingState == -1     \* the missing state indicator

MinMutationRate == 1              \* 1e-8, line 167
MaxMutationRate == 1500000000     \* 15.0, line 167

\* The values prob.solve may leave in a node variable ...
SolverValues == {-1, 0, 1, 2}

\* ... and in the variable of the anchor leaf, the fitted mutation rate.
AnchorValues == {0, MinMutationRate, 2, MaxMutationRate, MaxMutationRate + 1}

\* The values of minimum_branch_length, in hundredths (0.01 is the default).
MinimumBranchLengths == {0, 1, 50, 100}

None == "None"

Zero == [num |-> 0, den |-> 1]

\* float(a) / b
Divide(a, b) == [num |-> a, den |-> b]

\* a <= b for two times; the denominators are positive
TimeLeq(a, b) ==
    IF a.den = b.den THEN a.num <= b.num
    ELSE a.num * b.den <= b.num * a.den

TimeEq(a, b) == TimeLeq(a, b) /\ TimeLeq(b, a)

\* max(a, b) of Python: b only when it is greater than a
TimeMax(a, b) == IF TimeLeq(b, a) THEN a ELSE b

----------------------------------------------------------------------------
(* The tree collaborator (CassiopeiaTree) *)

TreeNodes == 1..NumNodes

Root == 1

\* The characters (sites) of the state vectors of the trees.
Chars == {1}

\* The characters of a state vector: range(len(state))
CharsOf(state) == DOMAIN state

\* Every rooted tree on the nodes in which a parent is numbered before its
\* children.
Topologies == {p \in [TreeNodes -> 0..NumNodes] :
                  /\ p[Root] = 0
                  /\ \A n \in TreeNodes \ {Root} : p[n] \in 1..(n - 1)}

\* The character states a lineage can have: the root is unmutated, a mutation
\* is never undone, and below a missing state everything is missing.
LineageStates(p) ==
    {s \in [TreeNodes -> [Chars -> {0, 1, MissingState}]] :
        /\ \A c \in Chars : s[Root][c] = 0
        /\ \A n \in TreeNodes \ {Root} : \A c \in Chars :
              /\ s[p[n]][c] = 1 => s[n][c] \in {1, MissingState}
              /\ s[p[n]][c] = MissingState => s[n][c] = MissingState}

\* tree.children(v), in node order
Children(p, v) == {n \in TreeNodes : p[n] = v}

\* tree.leaves
Leaves(p) == TreeNodes \ {p[n] : n \in TreeNodes \ {Root}}

\* tree.edges
TreeEdges(p) == {<<p[n], n>> : n \in TreeNodes \ {Root}}

RECURSIVE DepthOf(_, _)
DepthOf(p, n) == IF n = Root THEN 0 ELSE 1 + DepthOf(p, p[n])

Max(S) == CHOOSE x \in S : \A y \in S : y <= x

Min(S) == CHOOSE x \in S : \A y \in S : x <= y

\* tree.get_edge_depth(): the number of edges of the longest root-to-leaf path
get_edge_depth(p) == Max({DepthOf(p, n) : n \in Leaves(p)})

\* tree.character_matrix: the states of the leaves
character_matrix(p, s) == [l \in Leaves(p) |-> s[l]]

\* tree.get_unmutated_characters_along_edge(parent, child)
get_unmutated_characters_along_edge(s, u, v) ==
    {c \in CharsOf(s[u]) : s[u][c] = 0 /\ s[v][c] = 0}

\* tree.get_mutations_along_edge(parent, child, treat_missing_as_mutations=False)
get_mutations_along_edge(s, u, v) ==
    {c \in CharsOf(s[u]) : s[u][c] = 0 /\ s[v][c] # 0 /\ s[v][c] # MissingState}

\* The sequence of the members of a set of nodes, in increasing order.
RECURSIVE Sorted(_)
Sorted(S) == IF S = {} THEN <<>> ELSE <<Min(S)>> \o Sorted(S \ {Min(S)})

\* tree.depth_first_traverse_edges(): the edges in depth-first preorder
RECURSIVE DfsFrom(_, _)
RECURSIVE DfsChildren(_, _, _)
DfsFrom(p, v) == DfsChildren(p, v, Sorted(Children(p, v)))
DfsChildren(p, v, cs) ==
    IF cs = <<>> THEN <<>>
    ELSE <<<<v, Head(cs)>>>> \o DfsFrom(p, Head(cs)) \o DfsChildren(p, v, Tail(cs))

depth_first_traverse_edges(p) == DfsFrom(p, Root)

TreeInit ==
    /\ parent \in Topologies
    /\ states \in LineageStates(parent)
    /\ times = [n \in TreeNodes |-> Zero]

TreeIdle ==
    /\ parent = <<>>
    /\ states = <<>>
    /\ times = <<>>

----------------------------------------------------------------------------
(* IIDExponentialMLE.estimate_branch_lengths *)

\* line 93: (tree.character_matrix == 0).all().all()
NoMutations(cm) == \A l \in DOMAIN cm : \A c \in CharsOf(cm[l]) : cm[l][c] = 0

\* A slip of line 99: a missing entry is not counted as mutated.
FullyMutatedStrict(cm) == \A l \in DOMAIN cm : \A c \in CharsOf(cm[l]) : cm[l][c] > 0

\* line 99: (tree.character_matrix != 0).all().all()
FullyMutated(cm) == \A l \in DOMAIN cm : \A c \in CharsOf(cm[l]) : cm[l][c] # 0

\* A slip of line 106: > instead of >=.
TooLargeStrict(depth, mbl) == depth * mbl > MblOne

\* line 106: tree.get_edge_depth() * minimum_branch_length >= 1.0
TooLarge(depth, mbl) == depth * mbl >= MblOne

\* A slip of line 167: the bounds themselves are refused too.
RateRefusedAtBounds(rate) == rate <= MinMutationRate \/ rate >= MaxMutationRate

\* line 167: the fitted rate is refused
RateRefused(rate) == rate < MinMutationRate \/ rate > MaxMutationRate

\* line 120: a_leaf = tree.leaves[0]
a_leaf(p) == Min(Leaves(p))

\* lines 173-175: the value of the objective at the solution.  A mutated edge
\* of length -1e-5 (1000 units) or less gives log(0) or the log of a negative
\* number: -inf, or nan which line 175 turns into -inf.
ObjectiveValue(p, s, v) ==
    IF \E e \in TreeEdges(p) :
          /\ get_mutations_along_edge(s, e[1], e[2]) # {}
          /\ v[e[2]] - v[e[1]] + 1000 <= 0
    THEN "-inf" ELSE "finite"

\* A slip of line 188: the child's time is kept as it is.
NoClamp(parentTime, childTime) == childTime

\* A slip of line 188: the child's value is taken for the length of its edge.
ClampAsLength(parentTime, childTime) ==
    IF parentTime.den = childTime.den
    THEN [num |-> parentTime.num + childTime.num, den |-> childTime.den]
    ELSE [num |-> parentTime.num * childTime.den + childTime.num * parentTime.den,
          den |-> parentTime.den * childTime.den]

\* line 188
Clamp(parentTime, childTime) == TimeMax(parentTime, childTime)

\* lines 187-188: the sweep over the edges es, in order
RECURSIVE Sweep(_, _)
Sweep(t, es) ==
    IF es = <<>> THEN t
    ELSE LET u == Head(es)[1]
             v == Head(es)[2]
         IN  Sweep([t EXCEPT ![v] = Clamp(t[u], t[v])], Tail(es))

\* line 184
ResetRoot(t) == [t EXCEPT ![Root] = Zero]

\* lines 179-188: the times handed to tree.set_times, es being
\* tree.depth_first_traverse_edges()
EstimatedTimes(es, v, rate) ==
    Sweep(ResetRoot([n \in TreeNodes |-> Divide(v[n], rate)]), es)

MLEInit ==
    /\ minimum_branch_length \in MinimumBranchLengths
    /\ mutation_rate = None
    /\ log_likelihood = None
    /\ solved = <<>>
    /\ problems = 0
    /\ solves = 0
    /\ outcome = "not called"

MLEIdle ==
    /\ minimum_branch_length = 0
    /\ mutation_rate = None
    /\ log_likelihood = None
    /\ solved = <<>>
    /\ problems = 0
    /\ solves = 0
    /\ outcome = "not called"

\* lines 93-96: raise ValueError, the matrix has no mutations
EstimateNoMutations ==
    /\ outcome = "not called"
    /\ NoMutations(character_matrix(parent, states))
    /\ outcome' = "ValueError: no mutations"
    /\ UNCHANGED <<treeVars, minimum_branch_length, mutation_rate,
                   log_likelihood, solved, problems, solves>>
    /\ UNCHANGED <<splitVars, llVars>>
    /\ UNCHANGED cvVars
    /\ UNCHANGED zoVars

\* lines 99-103: raise ValueError, the matrix is fully mutated
EstimateFullyMutated ==
    /\ outcome = "not called"
    /\ ~NoMutations(character_matrix(parent, states))
    /\ FullyMutated(character_matrix(parent, states))
    /\ outcome' = "ValueError: fully mutated"
    /\ UNCHANGED <<treeVars, minimum_branch_length, mutation_rate,
                   log_likelihood, solved, problems, solves>>
    /\ UNCHANGED <<splitVars, llVars>>
    /\ UNCHANGED cvVars
    /\ UNCHANGED zoVars

\* The checks of lines 93-109 pass.
InputAccepted ==
    /\ ~NoMutations(character_matrix(parent, states))
    /\ ~FullyMutated(character_matrix(parent, states))
    /\ ~TooLarge(get_edge_depth(parent), minimum_branch_length)

\* lines 106-109: raise ValueError, minimum_branch_length is too large
EstimateTooLarge ==
    /\ outcome = "not called"
    /\ ~NoMutations(character_matrix(parent, states))
    /\ ~FullyMutated(character_matrix(parent, states))
    /\ TooLarge(get_edge_depth(parent), minimum_branch_length)
    /\ outcome' = "ValueError: minimum_branch_length too large"
    /\ UNCHANGED <<treeVars, minimum_branch_length, mutation_rate,
                   log_likelihood, solved, problems, solves>>
    /\ UNCHANGED <<splitVars, llVars>>
    /\ UNCHANGED cvVars
    /\ UNCHANGED zoVars

\* lines 111-163: the problem is built and prob.solve raises cp.SolverError
EstimateSolverError ==
    /\ outcome = "not called"
    /\ InputAccepted
    /\ problems' = problems + 1
    /\ solves' = solves + 1
    /\ outcome' = "IIDExponentialMLEError: solver failed"
    /\ UNCHANGED <<treeVars, minimum_branch_length, mutation_rate,
                   log_likelihood, solved>>
    /\ UNCHANGED <<splitVars, llVars>>
    /\ UNCHANGED cvVars
    /\ UNCHANGED zoVars

\* What prob.solve can leave in the node variables, a being the anchor leaf.
SolverAnswers(a) ==
    {(a :> r) @@ w : r \in AnchorValues, w \in [TreeNodes \ {a} -> SolverValues]}

\* A slip of lines 166-177: the log-likelihood is stored before the rate is
\* checked.
EstimateRateRefusedLate ==
    /\ outcome = "not called"
    /\ InputAccepted
    /\ LET a == a_leaf(parent)
       IN  \E v \in SolverAnswers(a) :
              /\ RateRefused(v[a])
              /\ solved' = v
              /\ mutation_rate' = v[a]
              /\ log_likelihood' = ObjectiveValue(parent, states, v)
    /\ problems' = problems + 1
    /\ solves' = solves + 1
    /\ outcome' = "IIDExponentialMLEError: rate refused"
    /\ UNCHANGED <<treeVars, minimum_branch_length>>
    /\ UNCHANGED <<splitVars, llVars>>
    /\ UNCHANGED cvVars
    /\ UNCHANGED zoVars

\* lines 111-170: the solve returns and the fitted rate is refused
EstimateRateRefused ==
    /\ outcome = "not called"
    /\ InputAccepted
    /\ LET a == a_leaf(parent)
       IN  \E v \in SolverAnswers(a) :
              /\ RateRefused(v[a])
              /\ solved' = v
              /\ mutation_rate' = v[a]
    /\ problems' = problems + 1
    /\ solves' = solves + 1
    /\ outcome' = "IIDExponentialMLEError: rate refused"
    /\ UNCHANGED <<treeVars, minimum_branch_length, log_likelihood>>
    /\ UNCHANGED <<splitVars, llVars>>
    /\ UNCHANGED cvVars
    /\ UNCHANGED zoVars

\* lines 111-189: the solve returns, the rate is accepted, the times are set
EstimateReturns ==
    /\ outcome = "not called"
    /\ InputAccepted
    /\ LET a == a_leaf(parent)
           es == depth_first_traverse_edges(parent)
       IN  \E v \in SolverAnswers(a) :
              /\ ~RateRefused(v[a])
              /\ solved' = v
              /\ mutation_rate' = v[a]
              /\ log_likelihood' = ObjectiveValue(parent, states, v)
              /\ times' = EstimatedTimes(es, v, v[a])
    /\ problems' = problems + 1
    /\ solves' = solves + 1
    /\ outcome' = "returned"
    /\ UNCHANGED <<parent, states, minimum_branch_length>>
    /\ UNCHANGED <<splitVars, llVars>>
    /\ UNCHANGED cvVars
    /\ UNCHANGED zoVars

MLENext ==
    \/ EstimateNoMutations
    \/ EstimateFullyMutated
    \/ EstimateTooLarge
    \/ EstimateSolverError
    \/ EstimateRateRefused
    \/ EstimateReturns

----------------------------------------------------------------------------
(* IIDExponentialMLE.model_log_likelihood                                  *)
(*                                                                         *)
(* A log-likelihood is kept as two exact parts: lin, a quotient in units   *)
(* of 1e-8 (the sum of the terms num_unmutated * -x), and log, an integer  *)
(* in hundredths (the sum of the terms num_mutated * log(1 - exp(-x))).    *)

MinEdgeProduct == 1     \* 1e-8, line 225

\* The times a scored tree may carry (halves) and the rates it is scored at.
ScoredTimes == {[num |-> k, den |-> 2] : k \in 0..2}
ScoredRates == {0, 1, 3}

\* a - b for two times
TimeSub(a, b) ==
    IF a.den = b.den THEN [num |-> a.num - b.num, den |-> a.den]
    ELSE [num |-> a.num * b.den - b.num * a.den, den |-> a.den * b.den]

\* a + b for two quotients
QuotAdd(a, b) ==
    IF a.den = b.den THEN [num |-> a.num + b.num, den |-> a.den]
    ELSE [num |-> a.num * b.den + b.num * a.den, den |-> a.den * b.den]

\* k * a for an integer k
QuotScale(k, a) == [num |-> k * a.num, den |-> a.den]

\* round(100 * ln(n)) for a positive integer n
RECURSIVE CentiLn(_)
CentiLn(n) ==
    IF n <= 12
    THEN <<0, 69, 110, 139, 161, 179, 195, 208, 220, 230, 240, 248>>[n]
    ELSE 69 + CentiLn(n \div 2)

NegInf == [kind |-> "-inf"]

AssertionError == [kind |-> "AssertionError"]

Finite(lin, log) == [kind |-> "finite", lin |-> lin, log |-> log]

\* np.log(1 - np.exp(-x)) in hundredths, x a quotient in units of 1e-8:
\* ln(x * 1e-8) for the x of the model, and -inf at x = 0
LogOneMinusExp(x) ==
    IF x.num <= 0 THEN NegInf
    ELSE Finite(Zero, CentiLn(x.num) - CentiLn(x.den) - 1842)

\* A slip of line 225: only an edge of no length at all is caught.
BelowThresholdZero(x) == x.num <= 0

\* line 225: edge_length * mutation_rate < 1e-8
BelowThreshold(x) == x.num < MinEdgeProduct * x.den

\* A slip of line 226: the loop is left with what was summed so far.
ShortEdgeBreaks(acc) == acc

\* line 226: what the function returns at a mutated edge below the threshold
ShortEdgeResult(acc) == NegInf

\* A slip of line 224: the threshold is applied to every edge.
ChecksEveryEdge(num_mutated) == TRUE

\* line 224: the threshold is applied to the edges that carry a mutation
ChecksThreshold(num_mutated) == num_mutated > 0

\* log_likelihood += k * term, for a finite log_likelihood
Accumulate(acc, k, term) ==
    IF term.kind = "-inf" THEN NegInf
    ELSE Finite(QuotAdd(acc.lin, QuotScale(k, term.lin)), acc.log + k * term.log)

\* lines 212-229, from the edge list es on, log_likelihood being acc
RECURSIVE LogLikelihoodFrom(_, _, _, _, _)
LogLikelihoodFrom(acc, es, s, t, rate) ==
    IF es = <<>> \/ acc.kind # "finite" THEN acc
    ELSE LET u == Head(es)[1]
             v == Head(es)[2]
             edge_length == TimeSub(t[v], t[u])
             x == QuotScale(rate, edge_length)
             num_unmutated == Cardinality(get_unmutated_characters_along_edge(s, u, v))
             num_mutated == Cardinality(get_mutations_along_edge(s, u, v))
             acc1 == Accumulate(acc, num_unmutated, Finite(QuotScale(-1, x), 0))
         IN  IF edge_length.num < 0 THEN AssertionError
             ELSE IF ChecksThreshold(num_mutated)
             THEN IF BelowThreshold(x) THEN ShortEdgeResult(acc1)
                  ELSE LogLikelihoodFrom(
                           Accumulate(acc1, num_mutated, LogOneMinusExp(x)),
                           Tail(es), s, t, rate)
             ELSE LogLikelihoodFrom(acc1, Tail(es), s, t, rate)

\* IIDExponentialMLE.model_log_likelihood(tree, mutation_rate), the edges of
\* the tree being visited in the order es
model_log_likelihood(es, s, t, rate) ==
    LogLikelihoodFrom(Finite(Zero, 0), es, s, t, rate)

\* The orders in which tree.edges may list the edges.
EdgeOrders(p) ==
    {es \in [1..Cardinality(TreeEdges(p)) -> TreeEdges(p)] :
        \A i, j \in DOMAIN es : i # j => es[i] # es[j]}

\* The shapes of the scored trees: a node hangs below the node numbered just
\* before it, or below the node of half its number.
ScoredTopologies ==
    {p \in Topologies : \A n \in TreeNodes \ {Root} : p[n] \in {n - 1, n \div 2}}

\* A tree with times: the root at 0, no child before its parent.
ScoredTreeInit ==
    /\ parent \in ScoredTopologies
    /\ states \in LineageStates(parent)
    /\ times \in [TreeNodes -> ScoredTimes]
    /\ times[Root].num = 0
    /\ \A n \in TreeNodes \ {Root} : TimeLeq(times[parent[n]], times[n])

LLInit ==
    /\ ll_rate \in ScoredRates
    /\ ll_results = <<>>

LLIdle ==
    /\ ll_rate = 0
    /\ ll_results = <<>>

\* One call of model_log_likelihood(tree, ll_rate); its result is recorded
ModelLogLikelihood ==
    /\ Len(ll_results) < 2
    /\ \E es \in EdgeOrders(parent) :
          ll_results' = Append(ll_results, model_log_likelihood(es, states, times, ll_rate))
    /\ UNCHANGED <<ll_rate, treeVars, mleVars, splitVars>>
    /\ UNCHANGED cvVars
    /\ UNCHANGED zoVars

LLNext == ModelLogLikelihood

----------------------------------------------------------------------------
(* IIDExponentialMLEGridSearchCV: the folds of _cv_log_likelihood *)

\* The numbers of characters of the cross-validated trees, and the values
\* of n_fold (-1: one fold per character).
CharacterCounts == {1, 2, 3, 4, 5}
FoldCounts == {-1, 1, 2, 3, 4, 5}

\* The shape of the cross-validated trees: node n hangs below node n div 2.
CVTopology == [n \in TreeNodes |-> n \div 2]

\* The states of a tree of n characters in which every node below the root
\* carries mutation c at character c.
FullStates(n) ==
    [v \in TreeNodes |-> [c \in 1..n |-> IF v = Root THEN 0 ELSE c]]

\* tree.n_character
n_character(s) == Len(s[Root])

\* list(range(n))
RangeList(n) == [j \in 1..n |-> j - 1]

\* np.random.shuffle: every arrangement of the list
Shuffles(l) ==
    {q \in [1..Len(l) -> Range(l)] :
        \A a, b \in 1..Len(l) : a # b => q[a] # q[b]}

\* l[a:b] for 0 <= a <= b: a slice stops at the end of the list
Slice(l, a, b) ==
    LET lo == IF a < Len(l) THEN a ELSE Len(l)
        hi == IF b < Len(l) THEN b ELSE Len(l)
    IN  [j \in 1..(hi - lo) |-> l[lo + j]]

\* A slip of line 337: the quotient is rounded down.
SplitSizeFloor(n_characters, folds) == n_characters \div folds

\* line 337: int((n_characters + n_fold - 1) / n_fold), for n_fold >= 1
SplitSize(n_characters, folds) == (n_characters + folds - 1) \div folds

\* line 339: the held-out block of split split_id
HeldOutBlock(indices, split_id, size) ==
    Slice(indices, split_id * size, (split_id + 1) * size)

\* A slip of line 369: the held-out characters stay in the training state.
TrainStateKeepsAll(state, held) == state

\* line 369: [state[i] for i in range(len(state)) if i not in held]
TrainState(state, held) ==
    LET kept == SelectSeq(RangeList(Len(state)), LAMBDA i : ~IsIn(i, held))
    IN  [j \in 1..Len(kept) |-> state[kept[j] + 1]]

\* line 370: [state[i] for i in held]
ValidState(state, held) == [j \in 1..Len(held) |-> state[held[j] + 1]]

\* _cv_split: the training tree and the validation tree
cv_split(p, s, held) ==
    [train_tree |-> [topology |-> p, times |-> <<>>,
                     states |-> [v \in DOMAIN p |-> TrainState(s[v], held)]],
     valid_tree |-> [topology |-> p, times |-> <<>>,
                     states |-> [v \in DOMAIN p |-> ValidState(s[v], held)]]]

\* A slip of line 343: the folds are handed one model object.
ReusedModel(ms, mbl) ==
    IF ms = <<>>
    THEN <<[minimum_branch_length |-> mbl, mutation_rate |-> None]>>
    ELSE ms

\* line 343: a new IIDExponentialMLE object for the fold
NewModel(ms, mbl) ==
    Append(ms, [minimum_branch_length |-> mbl, mutation_rate |-> None])

\* The part of the estimator that a search leaves as it is until it ends.
SearchIdle ==
    /\ fold_pc = <<>>
    /\ log_likelihood_folds = <<>>
    /\ held_out_log_likelihoods = <<>>
    /\ grid = <<>>
    /\ final_model = None
    /\ cv_fitted = None
    /\ cv_outcome = "not called"

\* No estimator of BranchLengthEstimatorCV is run.
TuneIdle ==
    /\ estimator = "IIDExponentialMLEGridSearchCV"
    /\ n_hyperparams = 0
    /\ n_folds = 0
    /\ tune_pc = "idle"
    /\ trials = <<>>
    /\ tune_raised = None
    /\ best_config = None
    /\ final_fits = 0
    /\ tune_fitted = {}
    /\ tune_outcome = "not called"

\* No search of IIDExponentialMLEGridSearchCV is run.
GridIdle ==
    /\ minimum_branch_lengths = <<>>
    /\ processes = 0
    /\ self_n_fold = 0
    /\ cv_pc = "idle"
    /\ random_char_indices = <<>>
    /\ n_fold = 0
    /\ split_size = 0
    /\ held_out = <<>>
    /\ models = <<>>
    /\ params = <<>>
    /\ SearchIdle

CVIdle == GridIdle /\ TuneIdle

\* A tree of 1 to 5 characters handed to a search over one grid point.
FoldInit ==
    /\ parent = CVTopology
    /\ \E n \in CharacterCounts : states = FullStates(n)
    /\ times = [v \in TreeNodes |-> Zero]
    /\ minimum_branch_lengths = <<1>>
    /\ processes = 1
    /\ self_n_fold \in FoldCounts
    /\ cv_pc = "start"
    /\ random_char_indices = <<>>
    /\ n_fold = 0
    /\ split_size = 0
    /\ held_out = <<>>
    /\ models = <<>>
    /\ params = <<>>
    /\ SearchIdle
    /\ TuneIdle

\* lines 276-277: the indices of the characters, shuffled once
GridShuffle ==
    /\ cv_pc = "start"
    /\ random_char_indices' \in Shuffles(RangeList(n_character(states)))
    /\ grid' = [j \in 1..Len(minimum_branch_lengths) |-> 0]
    /\ cv_outcome' = "running"
    /\ cv_pc' = "grid"
    /\ UNCHANGED <<n_fold, split_size, held_out, models, params>>
    /\ UNCHANGED <<held_out_log_likelihoods, final_model, cv_fitted>>
    /\ UNCHANGED <<gridVars, poolVars, splitVars, treeVars, mleVars, llVars>>
    /\ UNCHANGED tuneVars
    /\ UNCHANGED zoVars

\* lines 325-337 for n_fold # 0: the number of folds and their size
CVEnter ==
    /\ cv_pc = "grid"
    /\ Len(held_out_log_likelihoods) < Len(minimum_branch_lengths)
    /\ self_n_fold # 0
    /\ LET folds == IF self_n_fold = -1 THEN n_character(states)
                    ELSE self_n_fold
       IN  /\ n_fold' = folds
           /\ split_size' = SplitSize(n_character(states), folds)
    /\ held_out' = <<>>
    /\ models' = <<>>
    /\ params' = <<>>
    /\ cv_pc' = "split"
    /\ UNCHANGED random_char_indices
    /\ UNCHANGED <<gridVars, poolVars, selectVars>>
    /\ UNCHANGED tuneVars
    /\ UNCHANGED <<splitVars, treeVars, mleVars, llVars>>
    /\ UNCHANGED zoVars

\* lines 338-346: one turn of the loop over range(n_fold)
CVSplit ==
    /\ cv_pc = "split"
    /\ Len(params) < n_fold
    /\ LET split_id == Len(params)
           held_out_character_idxs ==
               HeldOutBlock(random_char_indices, split_id, split_size)
           trees == cv_split(parent, states, held_out_character_idxs)
           minimum_branch_length_i ==
               minimum_branch_lengths[Len(held_out_log_likelihoods) + 1]
           ms == NewModel(models, minimum_branch_length_i)
       IN  /\ held_out' = Append(held_out, held_out_character_idxs)
           /\ models' = ms
           /\ params' = Append(params,
                  [model |-> Len(ms),
                   train_tree |-> trees.train_tree,
                   valid_tree |-> trees.valid_tree])
    /\ UNCHANGED <<cv_pc, random_char_indices, n_fold, split_size>>
    /\ UNCHANGED <<gridVars, poolVars, selectVars>>
    /\ UNCHANGED tuneVars
    /\ UNCHANGED <<splitVars, treeVars, mleVars, llVars>>
    /\ UNCHANGED zoVars

FoldNext ==
    \/ GridShuffle
    \/ CVEnter
    \/ CVSplit

----------------------------------------------------------------------------
(* IIDExponentialMLEGridSearchCV: the pool, the selection, the final fit *)

\* The grids of the searches, the values of self.processes and of
\* self.n_fold (-1: one fold per character, 0: no fold).
Grids == {<<0>>, <<0, 1>>, <<1, 0>>, <<50, 0>>, <<50, 100>>}
ProcessCounts == {1, 2}
SearchFoldCounts == {-1, 0, 1, 2}
SearchCharacterCounts == {1, 2}

\* The leaves that carry the mutation of a character: none, the last leaf,
\* or all of them.
LeafPatterns(p) == {{}, {Max(Leaves(p))}, Leaves(p)}

\* The states of a tree of n characters whose inner nodes are unmutated.
CVStates(p, n) ==
    {[v \in TreeNodes |-> [c \in 1..n |-> IF v \in M[c] THEN c ELSE 0]] :
        M \in [1..n -> LeafPatterns(p)]}

\* What prob.solve leaves in the node variables of a fold: the root at 0,
\* every leaf at the rate r, every inner node at w.
SolvedPairs == {<<0, 0>>, <<1, 0>>, <<1, 1>>, <<2, 0>>, <<2, 2>>}

CVSolverAnswers(p) ==
    {[v \in TreeNodes |-> IF v = Root THEN 0
                          ELSE IF v \in Leaves(p) THEN q[1] ELSE q[2]] :
        q \in SolvedPairs}

\* The ways a call model.estimate_branch_lengths(tree) can end, for a tree
\* of topology p and states s and a model of minimum_branch_length mbl.
FitOutcomes(p, s, mbl) ==
    LET cm == character_matrix(p, s)
        a == a_leaf(p)
        es == depth_first_traverse_edges(p)
    IN  IF NoMutations(cm) \/ FullyMutated(cm)
           \/ TooLarge(get_edge_depth(p), mbl)
        THEN {[kind |-> "ValueError"]}
        ELSE {[kind |-> "IIDExponentialMLEError"]} \cup
             {IF RateRefused(v[a])
              THEN [kind |-> "IIDExponentialMLEError", mutation_rate |-> v[a]]
              ELSE [kind |-> "returned", mutation_rate |-> v[a],
                    log_likelihood |-> ObjectiveValue(p, s, v),
                    times |-> EstimatedTimes(es, v, v[a])] :
              v \in CVSolverAnswers(p)}

\* A slip of line 392: ValueError is not caught.
CaughtSolverErrorOnly(kind) == kind = "IIDExponentialMLEError"

\* line 392: except (IIDExponentialMLEError, ValueError)
Caught(kind) == kind \in {"IIDExponentialMLEError", "ValueError"}

Pending == [kind |-> "pending"]

\* line 349: list(map_fn(_fit_model, params)) has every result
AllReturned(fp) == \A k \in 1..Len(fp) : fp[k] = "returned"

\* The sum of the results that are numbers.
RECURSIVE SumFinite(_)
SumFinite(lls) ==
    IF lls = <<>> THEN Finite(Zero, 0)
    ELSE LET h == Head(lls)
             r == SumFinite(Tail(lls))
         IN  IF h.kind = "finite"
             THEN Finite(QuotAdd(h.lin, r.lin), h.log + r.log)
             ELSE r

\* A slip of line 353: the results that are -inf are left out of the mean
\* (as np.nanmean leaves out nan).
MeanOfNumbers(lls) ==
    LET t == SumFinite(lls)
    IN  [kind |-> "finite", lin |-> t.lin, log |-> t.log, over |-> Len(lls)]

\* line 353: np.mean, the sum of the parts over the number of folds; -inf
\* as soon as one result is -inf
Mean(lls) ==
    IF \E k \in 1..Len(lls) : lls[k].kind = "-inf" THEN NegInf
    ELSE LET t == SumFinite(lls)
         IN  [kind |-> "finite", lin |-> t.lin, log |-> t.log, over |-> Len(lls)]

\* a < b for two means.  The rates of the model are of the order of 1e-8,
\* so the lin parts only decide between equal log parts.
ScoreLess(a, b) ==
    IF a.kind = "-inf" THEN b.kind = "finite"
    ELSE IF b.kind = "-inf" THEN FALSE
    ELSE LET la == a.log * b.over
             lb == b.log * a.over
         IN  \/ la < lb
             \/ /\ la = lb
                /\ a.lin.num * b.lin.den * b.over < b.lin.num * a.lin.den * a.over

\* a == b for two means
ScoreEq(a, b) == ~ScoreLess(a, b) /\ ~ScoreLess(b, a)

\* A slip of line 293: the tuples are sorted by their score alone.
ScoreOnlyLess(x, y) == ScoreLess(x[1], y[1])

\* x < y for two tuples (cv_log_likelihood, [minimum_branch_length])
TupleLess(x, y) ==
    \/ ScoreLess(x[1], y[1])
    \/ ScoreEq(x[1], y[1]) /\ x[2][1] < y[2][1]

\* line 293: list.sort(reverse=True), the greatest tuple first, equal tuples
\* in the order they had
RECURSIVE InsertDescending(_, _)
InsertDescending(sorted, x) ==
    IF sorted = <<>> THEN <<x>>
    ELSE IF TupleLess(Head(sorted), x) THEN <<x>> \o sorted
    ELSE <<Head(sorted)>> \o InsertDescending(Tail(sorted), x)

RECURSIVE SortReverse(_)
SortReverse(l) ==
    IF l = <<>> THEN <<>>
    ELSE InsertDescending(SortReverse(SubSeq(l, 1, Len(l) - 1)), l[Len(l)])

\* A tree of one or two characters handed to a search over a grid.
CVInit ==
    /\ parent = CVTopology
    /\ \E n \in SearchCharacterCounts : states \in CVStates(parent, n)
    /\ times = [v \in TreeNodes |-> Zero]
    /\ minimum_branch_lengths \in Grids
    /\ processes \in ProcessCounts
    /\ self_n_fold \in SearchFoldCounts
    /\ cv_pc = "start"
    /\ random_char_indices = <<>>
    /\ n_fold = 0
    /\ split_size = 0
    /\ held_out = <<>>
    /\ models = <<>>
    /\ params = <<>>
    /\ SearchIdle
    /\ TuneIdle

\* line 337 for n_fold = 0: the division raises ZeroDivisionError
CVZeroDivision ==
    /\ cv_pc = "grid"
    /\ Len(held_out_log_likelihoods) < Len(minimum_branch_lengths)
    /\ self_n_fold = 0
    /\ n_fold' = 0
    /\ cv_outcome' = "ZeroDivisionError"
    /\ cv_pc' = "raised"
    /\ UNCHANGED <<random_char_indices, split_size, held_out, models, params>>
    /\ UNCHANGED <<held_out_log_likelihoods, grid, final_model, cv_fitted>>
    /\ UNCHANGED <<gridVars, poolVars, splitVars, treeVars, mleVars, llVars>>
    /\ UNCHANGED tuneVars
    /\ UNCHANGED zoVars

\* lines 347-349: the pool is entered with the triples of all folds
CVPool ==
    /\ cv_pc = "split"
    /\ Len(params) = n_fold
    /\ fold_pc' = [k \in 1..n_fold |-> "waiting"]
    /\ log_likelihood_folds' = [k \in 1..n_fold |-> Pending]
    /\ cv_pc' = "pool"
    /\ UNCHANGED <<random_char_indices, n_fold, split_size, held_out, models,
                   params>>
    /\ UNCHANGED <<gridVars, selectVars, splitVars, treeVars, mleVars, llVars>>
    /\ UNCHANGED tuneVars
    /\ UNCHANGED zoVars

\* pool.map runs at most self.processes calls of _fit_model at a time; the
\* builtin map of line 348 runs them one after the other.
MayStart(k) ==
    /\ fold_pc[k] = "waiting"
    /\ IF processes > 1
       THEN Cardinality({j \in 1..Len(fold_pc) : fold_pc[j] = "fitted"}) < processes
       ELSE \A j \in 1..(k - 1) : fold_pc[j] = "returned"

\* lines 388-393: the fit of a fold raises
FoldFitRaises ==
    /\ cv_pc = "pool"
    /\ \E k \in 1..Len(fold_pc) :
          /\ MayStart(k)
          /\ LET m == params[k].model
                 train_tree == params[k].train_tree
             IN  \E o \in FitOutcomes(train_tree.topology, train_tree.states,
                                      models[m].minimum_branch_length) :
                    /\ o.kind # "returned"
                    /\ models' = IF "mutation_rate" \in DOMAIN o
                                 THEN [models EXCEPT ![m].mutation_rate = o.mutation_rate]
                                 ELSE models
                    /\ IF Caught(o.kind)
                       THEN /\ log_likelihood_folds' =
                                  [log_likelihood_folds EXCEPT ![k] = NegInf]
                            /\ fold_pc' = [fold_pc EXCEPT ![k] = "returned"]
                            /\ UNCHANGED <<cv_pc, cv_outcome>>
                       ELSE /\ cv_outcome' = o.kind
                            /\ cv_pc' = "raised"
                            /\ UNCHANGED <<fold_pc, log_likelihood_folds>>
    /\ UNCHANGED <<random_char_indices, n_fold, split_size, held_out, params>>
    /\ UNCHANGED <<held_out_log_likelihoods, grid, final_model, cv_fitted>>
    /\ UNCHANGED <<gridVars, splitVars, treeVars, mleVars, llVars>>
    /\ UNCHANGED tuneVars
    /\ UNCHANGED zoVars

\* line 389: the fit of a fold returns and has set the times of its
\* training tree
FoldFitReturns ==
    /\ cv_pc = "pool"
    /\ \E k \in 1..Len(fold_pc) :
          /\ MayStart(k)
          /\ LET m == params[k].model
                 train_tree == params[k].train_tree
             IN  \E o \in FitOutcomes(train_tree.topology, train_tree.states,
                                      models[m].minimum_branch_length) :
                    /\ o.kind = "returned"
                    /\ models' = [models EXCEPT ![m].mutation_rate = o.mutation_rate]
                    /\ params' = [params EXCEPT ![k].train_tree.times = o.times]
          /\ fold_pc' = [fold_pc EXCEPT ![k] = "fitted"]
    /\ UNCHANGED <<cv_pc, random_char_indices, n_fold, split_size, held_out>>
    /\ UNCHANGED <<log_likelihood_folds, selectVars>>
    /\ UNCHANGED <<gridVars, splitVars, treeVars, mleVars, llVars>>
    /\ UNCHANGED tuneVars
    /\ UNCHANGED zoVars

\* lines 390-391 of fold k: the score of the validation tree under the
\* times of the training tree and the rate of the model
HeldOutLogLikelihood(k) ==
    LET train_tree == params[k].train_tree
        valid_tree == params[k].valid_tree
    IN  model_log_likelihood(depth_first_traverse_edges(valid_tree.topology),
                             valid_tree.states, train_tree.times,
                             models[params[k].model].mutation_rate)

\* lines 390-394: the times go to the validation tree, which is scored
FoldScore ==
    /\ cv_pc = "pool"
    /\ \E k \in 1..Len(fold_pc) :
          /\ fold_pc[k] = "fitted"
          /\ params' = [params EXCEPT
                           ![k].valid_tree.times = params[k].train_tree.times]
          /\ LET held_out_log_likelihood == HeldOutLogLikelihood(k)
             IN  IF held_out_log_likelihood.kind = "AssertionError"
                 THEN /\ cv_outcome' = "AssertionError"
                      /\ cv_pc' = "raised"
                      /\ UNCHANGED <<fold_pc, log_likelihood_folds>>
                 ELSE /\ log_likelihood_folds' =
                            [log_likelihood_folds EXCEPT ![k] = held_out_log_likelihood]
                      /\ fold_pc' = [fold_pc EXCEPT ![k] = "returned"]
                      /\ UNCHANGED <<cv_pc, cv_outcome>>
    /\ UNCHANGED <<random_char_indices, n_fold, split_size, held_out, models>>
    /\ UNCHANGED <<held_out_log_likelihoods, grid, final_model, cv_fitted>>
    /\ UNCHANGED <<gridVars, splitVars, treeVars, mleVars, llVars>>
    /\ UNCHANGED tuneVars
    /\ UNCHANGED zoVars

\* lines 349-353 and 284-290: the mean of the fold results is returned,
\* appended with its grid point and written to the grid
CVMean ==
    /\ cv_pc = "pool"
    /\ AllReturned(fold_pc)
    /\ LET cv_log_likelihood == Mean(log_likelihood_folds)
           i == Len(held_out_log_likelihoods) + 1
       IN  /\ held_out_log_likelihoods' =
                 Append(held_out_log_likelihoods,
                        <<cv_log_likelihood, <<minimum_branch_lengths[i]>>>>)
           /\ grid' = [grid EXCEPT ![i] = cv_log_likelihood]
    /\ held_out' = <<>>
    /\ models' = <<>>
    /\ params' = <<>>
    /\ fold_pc' = <<>>
    /\ UNCHANGED log_likelihood_folds
    /\ cv_pc' = "grid"
    /\ UNCHANGED <<random_char_indices, n_fold, split_size>>
    /\ UNCHANGED <<final_model, cv_fitted, cv_outcome>>
    /\ UNCHANGED <<gridVars, splitVars, treeVars, mleVars, llVars>>
    /\ UNCHANGED tuneVars
    /\ UNCHANGED zoVars

\* lines 293-305: the tuples are sorted and the model of the best grid
\* point is made
GridSelect ==
    /\ cv_pc = "grid"
    /\ Len(held_out_log_likelihoods) = Len(minimum_branch_lengths)
    /\ LET sorted == SortReverse(held_out_log_likelihoods)
           best_minimum_branch_length == sorted[1][2][1]
       IN  /\ held_out_log_likelihoods' = sorted
           /\ final_model' = [minimum_branch_length |-> best_minimum_branch_length,
                              mutation_rate |-> None]
    /\ cv_pc' = "refit"
    /\ UNCHANGED <<random_char_indices, n_fold, split_size, held_out, models,
                   params>>
    /\ UNCHANGED <<grid, cv_fitted, cv_outcome>>
    /\ UNCHANGED <<gridVars, poolVars, splitVars, treeVars, mleVars, llVars>>
    /\ UNCHANGED tuneVars
    /\ UNCHANGED zoVars

\* line 306: the fit of the final model on the whole tree raises
GridRefitRaises ==
    /\ cv_pc = "refit"
    /\ \E o \in FitOutcomes(parent, states, final_model.minimum_branch_length) :
          /\ o.kind # "returned"
          /\ final_model' = IF "mutation_rate" \in DOMAIN o
                            THEN [final_model EXCEPT !.mutation_rate = o.mutation_rate]
                            ELSE final_model
          /\ cv_outcome' = o.kind
    /\ cv_pc' = "raised"
    /\ UNCHANGED <<random_char_indices, n_fold, split_size, held_out, models,
                   params>>
    /\ UNCHANGED <<held_out_log_likelihoods, grid, cv_fitted>>
    /\ UNCHANGED <<gridVars, poolVars, splitVars, treeVars, mleVars, llVars>>
    /\ UNCHANGED tuneVars
    /\ UNCHANGED zoVars

\* lines 306-309: the final fit sets the times of the tree, and the
\* attributes of the search are set
GridRefitReturns ==
    /\ cv_pc = "refit"
    /\ \E o \in FitOutcomes(parent, states, final_model.minimum_branch_length) :
          /\ o.kind = "returned"
          /\ final_model' = [final_model EXCEPT !.mutation_rate = o.mutation_rate]
          /\ times' = o.times
          /\ cv_fitted' = [minimum_branch_length |-> final_model.minimum_branch_length,
                           log_likelihood |-> o.log_likelihood,
                           grid |-> grid]
    /\ cv_outcome' = "returned"
    /\ cv_pc' = "done"
    /\ UNCHANGED <<random_char_indices, n_fold, split_size, held_out, models,
                   params>>
    /\ UNCHANGED <<held_out_log_likelihoods, grid>>
    /\ UNCHANGED <<parent, states>>
    /\ UNCHANGED <<gridVars, poolVars, splitVars, mleVars, llVars>>
    /\ UNCHANGED tuneVars
    /\ UNCHANGED zoVars

----------------------------------------------------------------------------
(* BranchLengthEstimatorCV: the estimators built on CharacterLevelCV.      *)
(* CharacterLevelCV (self._tune, the search driver) and                    *)
(* IIDExponentialBayesian are collaborators.                               *)

TunedEstimators == {"IIDExponentialBayesianEmpiricalBayes",
                    "IIDExponentialBayesianCrossValidated",
                    "IIDExponentialMLECrossValidated"}

\* The budgets of trials and the values of n_folds.
TrialBudgets == {1, 2}
TuneFoldCounts == {0, 2}

\* lines 61-68: IIDExponentialBayesianEmpiricalBayes fixes n_folds = 0
FoldCountsOf(est) ==
    IF est = "IIDExponentialBayesianEmpiricalBayes" THEN {0} ELSE TuneFoldCounts

\* The configurations the driver samples from the space of _create_space,
\* after _transform_hyperparameters_iid_exponential_bayesian.
Configurations(est) ==
    IF est = "IIDExponentialMLECrossValidated"
    THEN {[minimum_branch_length |-> m] : m \in {0, 50}}
    ELSE {[mutation_rate |-> r] : r \in {1, 2}}

\* The values of model.log_likelihood of an IIDExponentialBayesian.
BayesianLogLikelihoods == {Finite(Zero, -100), Finite(Zero, -200)}

\* The ways a call model.estimate_branch_lengths(tree) can end for a model
\* of class IIDExponentialBayesian with hyperparameters h: it raises, or it
\* sets times and keeps the mutation rate it was given.
BayesianFitOutcomes(p, s, h) ==
    {[kind |-> "Exception"]} \cup
    {[kind |-> "returned", mutation_rate |-> h.mutation_rate,
      log_likelihood |-> ll,
      times |-> EstimatedTimes(depth_first_traverse_edges(p), v, v[a_leaf(p)])] :
        v \in {w \in CVSolverAnswers(p) : w[a_leaf(p)] > 0},
        ll \in BayesianLogLikelihoods}

\* lines 79-85, 112-119, 96-101, 171-176, 207-208: the model of the estimator
\* is built from the hyperparameters and fitted on a tree
ModelFitOutcomes(est, p, s, h) ==
    IF est = "IIDExponentialMLECrossValidated"
    THEN FitOutcomes(p, s, h.minimum_branch_length)
    ELSE BayesianFitOutcomes(p, s, h)

\* The arguments (tree_train, cm_valid) the driver hands to _cv_metric: the
\* characters of a copy of the tree and no validation table when there are
\* no folds, a training tree and the table of a held-out character otherwise.
MetricArguments(p, s, folds) ==
    IF folds = 0
    THEN {[tree_train |-> [topology |-> p, states |-> s],
           cm_valid |-> [present |-> FALSE,
                         states |-> [v \in TreeNodes |-> <<>>]]]}
    ELSE {LET trees == cv_split(p, s, <<c>>)
          IN  [tree_train |-> [topology |-> p, states |-> trees.train_tree.states],
               cm_valid |-> [present |-> TRUE,
                             states |-> trees.valid_tree.states]] :
          c \in 0..(n_character(s) - 1)}

\* A slip of line 122: the validation branch is always taken.
IsAnything(cm_valid) == TRUE

\* line 122: cm_valid is not None
IsNotNone(cm_valid) == cm_valid.present

\* Where a call of a collaborator can raise inside one evaluation of a trial,
\* besides the fit of the model: nowhere, while the character states of the
\* training tree are reconstructed (lines 114-118), while the validation tree
\* is built (lines 123-131), or while the score is computed (lines 86,
\* 132-134, 137-139).
TrialFaults == {"none", "reconstruct", "valid_tree", "score"}

\* A slip of lines 87 and 120: only the errors of the estimator are caught.
ExceptEstimatorErrors(error) == error \in {"IIDExponentialMLEError", "ValueError"}

\* lines 87 and 120: a bare except catches every exception
BareExcept(error) == TRUE

\* The try block is left through the exception error, raised in phase: the
\* result is -inf when the except clause catches it, and the exception
\* leaves the metric otherwise.
TryFailed(phase, error) ==
    [valid_built |-> FALSE, scored_on |-> "nothing", failed_in |-> phase,
     score |-> IF BareExcept(error) THEN NegInf ELSE [kind |-> error]]

\* lines 122-139: the score is computed outside the try block, so an
\* exception raised there (the asserts of model_log_likelihood among them)
\* leaves the metric
Scored(valid_built, scored_on, fault, value) ==
    [valid_built |-> valid_built, scored_on |-> scored_on,
     failed_in |-> IF fault = "score" \/ value.kind = "AssertionError"
                   THEN "score" ELSE "nothing",
     score |-> IF fault = "score" THEN [kind |-> "Exception"] ELSE value]

\* lines 75-89: IIDExponentialBayesianEmpiricalBayes._cv_metric, the fit of
\* the model having ended as o; the fit and the read of model.log_likelihood
\* are both inside the try block
EmpiricalBayesMetric(o, fault) ==
    IF o.kind # "returned" THEN TryFailed("fit", o.kind)
    ELSE IF fault = "score" THEN TryFailed("score", "Exception")
    ELSE [valid_built |-> FALSE, scored_on |-> "model.log_likelihood",
          failed_in |-> "nothing", score |-> o.log_likelihood]

\* lines 108-139: _cv_metric_ble, the fit of the model having ended as o
cv_metric_ble(o, args, fault) ==
    IF fault = "reconstruct" THEN TryFailed("reconstruct", "Exception")
    ELSE IF o.kind # "returned" THEN TryFailed("fit", o.kind)
    ELSE LET es == depth_first_traverse_edges(args.tree_train.topology)
         IN  IF IsNotNone(args.cm_valid)
             THEN IF fault = "valid_tree"
                  THEN [valid_built |-> FALSE, scored_on |-> "nothing",
                        failed_in |-> "valid_tree",
                        score |-> [kind |-> "Exception"]]
                  ELSE Scored(TRUE, "tree_valid", fault,
                              model_log_likelihood(es, args.cm_valid.states,
                                                   o.times, o.mutation_rate))
             ELSE Scored(FALSE, "tree_train", fault,
                         model_log_likelihood(es, args.tree_train.states,
                                              o.times, o.mutation_rate))

\* The metric of the estimator est
cv_metric(est, o, args, fault) ==
    IF est = "IIDExponentialBayesianEmpiricalBayes"
    THEN EmpiricalBayesMetric(o, fault)
    ELSE cv_metric_ble(o, args, fault)

\* The evaluations of one trial the driver can see: a configuration, the
\* arguments of the metric and what the metric did.
TrialResults ==
    UNION {
        UNION {
            {[config |-> h, tree_train |-> args.tree_train.states]
                @@ cv_metric(estimator, o, args, fault) :
                o \in ModelFitOutcomes(estimator, args.tree_train.topology,
                                       args.tree_train.states, h),
                fault \in TrialFaults} :
            args \in MetricArguments(parent, states, n_folds)} :
        h \in Configurations(estimator)}

\* The metric returned a number.
TrialReturned(t) == t.score.kind \in {"finite", "-inf"}

\* The trial of greatest score, the first one among equal ones.
BestTrial(ts) ==
    Min({i \in 1..Len(ts) :
            \A j \in 1..Len(ts) :
               ~ScoreLess(Mean(<<ts[i].score>>), Mean(<<ts[j].score>>))})

\* A slip of lines 94-95: the error of the driver is passed on as it is.
SurfacedAsIs(error) == error

\* lines 94-95, 169-170, 205-206: except CharacterLevelCVError: raise
\* BranchLengthEstimatorError
Surfaced(error) ==
    IF error = "CharacterLevelCVError" THEN "BranchLengthEstimatorError"
    ELSE error

\* A slip of lines 102-105, 177, 209: the log-likelihood of the final model
\* is kept too.
FittedAttributesWithLikelihood(est) ==
    IF est = "IIDExponentialBayesianEmpiricalBayes"
    THEN {"mutation_rate", "log_likelihood", "birth_rate",
          "sampling_probability", "discretization_level"}
    ELSE {"mutation_rate", "log_likelihood"}

\* lines 102-105, 177, 209: the attributes set after the final fit
FittedAttributes(est) ==
    IF est = "IIDExponentialBayesianEmpiricalBayes"
    THEN {"mutation_rate", "birth_rate", "sampling_probability",
          "discretization_level"}
    ELSE {"mutation_rate"}

\* A tree handed to estimate_branch_lengths of one of the estimators.
TuneInit ==
    /\ parent = CVTopology
    /\ \E n \in SearchCharacterCounts : states \in CVStates(parent, n)
    /\ times = [v \in TreeNodes |-> Zero]
    /\ estimator \in TunedEstimators
    /\ n_hyperparams \in TrialBudgets
    /\ n_folds \in FoldCountsOf(estimator)
    /\ tune_pc = "tune"
    /\ trials = <<>>
    /\ tune_raised = None
    /\ best_config = None
    /\ final_fits = 0
    /\ tune_fitted = {}
    /\ tune_outcome = "running"

\* One call of _cv_metric by self._tune that returns a number
TuneMetric ==
    /\ tune_pc = "tune"
    /\ Len(trials) < n_hyperparams
    /\ \E t \in TrialResults :
          /\ TrialReturned(t)
          /\ trials' = Append(trials, t)
    /\ UNCHANGED <<estimator, n_hyperparams, n_folds, tune_pc, tune_raised,
                   best_config, final_fits, tune_fitted, tune_outcome>>
    /\ UNCHANGED <<gridVars, foldVars, poolVars, selectVars>>
    /\ UNCHANGED <<splitVars, treeVars, mleVars, llVars>>
    /\ UNCHANGED zoVars

\* One call of _cv_metric by self._tune that raises: the search ends, with
\* the error of the driver or with the exception of the trial
TuneMetricRaises ==
    /\ tune_pc = "tune"
    /\ Len(trials) < n_hyperparams
    /\ \E t \in TrialResults :
          /\ ~TrialReturned(t)
          /\ trials' = Append(trials, t)
          /\ \E error \in {"CharacterLevelCVError", t.score.kind} :
                /\ tune_raised' = error
                /\ tune_outcome' = Surfaced(error)
    /\ tune_pc' = "raised"
    /\ UNCHANGED <<estimator, n_hyperparams, n_folds, best_config, final_fits,
                   tune_fitted>>
    /\ UNCHANGED <<gridVars, foldVars, poolVars, selectVars>>
    /\ UNCHANGED <<splitVars, treeVars, mleVars, llVars>>
    /\ UNCHANGED zoVars

\* lines 92-95, 167-170, 203-206: self._tune raises CharacterLevelCVError
TuneRaises ==
    /\ tune_pc = "tune"
    /\ tune_raised' = "CharacterLevelCVError"
    /\ tune_outcome' = Surfaced("CharacterLevelCVError")
    /\ tune_pc' = "raised"
    /\ UNCHANGED <<estimator, n_hyperparams, n_folds, trials, best_config,
                   final_fits, tune_fitted>>
    /\ UNCHANGED <<gridVars, foldVars, poolVars, selectVars>>
    /\ UNCHANGED <<splitVars, treeVars, mleVars, llVars>>
    /\ UNCHANGED zoVars

\* lines 93, 168, 204: self._tune returns the best configuration
TuneReturns ==
    /\ tune_pc = "tune"
    /\ Len(trials) = n_hyperparams
    /\ best_config' = trials[BestTrial(trials)].config
    /\ tune_pc' = "fit"
    /\ UNCHANGED <<estimator, n_hyperparams, n_folds, trials, tune_raised,
                   final_fits, tune_fitted, tune_outcome>>
    /\ UNCHANGED <<gridVars, foldVars, poolVars, selectVars>>
    /\ UNCHANGED <<splitVars, treeVars, mleVars, llVars>>
    /\ UNCHANGED zoVars

\* lines 101, 176, 208: the fit of the final model on the tree raises
TunedFitRaises ==
    /\ tune_pc = "fit"
    /\ \E o \in ModelFitOutcomes(estimator, parent, states, best_config) :
          /\ o.kind # "returned"
          /\ tune_outcome' = o.kind
    /\ final_fits' = final_fits + 1
    /\ tune_pc' = "raised"
    /\ UNCHANGED <<estimator, n_hyperparams, n_folds, trials, tune_raised,
                   best_config, tune_fitted>>
    /\ UNCHANGED <<gridVars, foldVars, poolVars, selectVars>>
    /\ UNCHANGED <<splitVars, treeVars, mleVars, llVars>>
    /\ UNCHANGED zoVars

\* lines 96-105, 171-177, 207-209: the final model is fitted on the tree and
\* the attributes of the estimator are set
TunedFitReturns ==
    /\ tune_pc = "fit"
    /\ \E o \in ModelFitOutcomes(estimator, parent, states, best_config) :
          /\ o.kind = "returned"
          /\ times' = o.times
    /\ final_fits' = final_fits + 1
    /\ tune_fitted' = FittedAttributes(estimator)
    /\ tune_outcome' = "returned"
    /\ tune_pc' = "done"
    /\ UNCHANGED <<estimator, n_hyperparams, n_folds, trials, tune_raised,
                   best_config>>
    /\ UNCHANGED <<parent, states>>
    /\ UNCHANGED <<gridVars, foldVars, poolVars, selectVars>>
    /\ UNCHANGED <<splitVars, mleVars, llVars>>
    /\ UNCHANGED zoVars

\* A step of a search of either kind
CVNext ==
    \/ GridShuffle
    \/ CVEnter
    \/ CVZeroDivision
    \/ CVSplit
    \/ CVPool
    \/ FoldFitRaises
    \/ FoldFitReturns
    \/ FoldScore
    \/ CVMean
    \/ GridSelect
    \/ GridRefitRaises
    \/ GridRefitReturns
    \/ TuneMetric
    \/ TuneMetricRaises
    \/ TuneRaises
    \/ TuneReturns
    \/ TunedFitRaises
    \/ TunedFitReturns

----------------------------------------------------------------------------
(* ZeroOneBLE *)

\* tree.get_number_of_mutations_along_edge(parent, child, include_missing):
\* the characters that are unmutated in the parent and not in the child, a
\* missing state of the child counting only with include_missing
get_number_of_mutations_along_edge(s, u, v, missing) ==
    Cardinality({c \in CharsOf(s[u]) :
                    /\ s[u][c] = 0
                    /\ s[v][c] # 0
                    /\ missing \/ s[v][c] # MissingState})

\* A slip of line 18: the number of mutations is added.
StepByCount(number_of_mutations) == number_of_mutations

\* line 18: 1 * (number of mutations > 0)
Step(number_of_mutations) == IF number_of_mutations > 0 THEN 1 ELSE 0

\* lines 13-19: dfs(v, t) run on the dictionary tm, and its loop over the
\* children cs of v that are still to be visited
RECURSIVE dfs(_, _, _, _, _, _)
RECURSIVE dfs_children(_, _, _, _, _, _, _)
dfs(p, s, missing, v, t, tm) ==
    dfs_children(p, s, missing, v, t, Sorted(Children(p, v)), (v :> t) @@ tm)
dfs_children(p, s, missing, v, t, cs, tm) ==
    IF cs = <<>> THEN tm
    ELSE LET u == Head(cs)
             n == get_number_of_mutations_along_edge(s, v, u, missing)
         IN  dfs_children(p, s, missing, v, t, Tail(cs),
                          dfs(p, s, missing, u, t + Step(n), tm))

\* tree.set_times(times): a time t is kept as the quotient t / 1
set_times(tm) == [v \in DOMAIN tm |-> Divide(tm[v], 1)]

\* lines 6-23: the class defines no attribute besides _include_missing
ZeroOneAttributes == {}

\* The characters of the trees handed to ZeroOneBLE.
ZeroOneChars == {1, 2}

\* The character states a lineage can have over the characters chars: the
\* root is unmutated, a mutation is never undone, and below a missing state
\* everything is missing.
LineageStatesOver(p, chars) ==
    {s \in [TreeNodes -> [chars -> {0, 1, MissingState}]] :
        /\ \A c \in chars : s[Root][c] = 0
        /\ \A n \in TreeNodes \ {Root} : \A c \in chars :
              /\ s[p[n]][c] = 1 => s[n][c] \in {1, MissingState}
              /\ s[p[n]][c] = MissingState => s[n][c] = MissingState}

\* A tree with character states and no times yet, and an estimator.
ZeroOneInit ==
    /\ parent \in Topologies
    /\ states \in LineageStatesOver(parent, ZeroOneChars)
    /\ times = [n \in TreeNodes |-> Zero]
    /\ include_missing \in BOOLEAN
    /\ zero_one_outcome = "not called"

\* No ZeroOneBLE is constructed.
ZeroOneIdle ==
    /\ include_missing = FALSE
    /\ zero_one_outcome = "idle"

\* lines 10-23: ZeroOneBLE.estimate_branch_lengths(tree)
ZeroOneEstimate ==
    /\ zero_one_outcome = "not called"
    /\ times' = set_times(dfs(parent, states, include_missing, Root, 0, <<>>))
    /\ zero_one_outcome' = "returned"
    /\ UNCHANGED <<parent, states, include_missing>>
    /\ UNCHANGED <<splitVars, mleVars, llVars>>
    /\ UNCHANGED cvVars

ZeroOneNext == ZeroOneEstimate

----------------------------------------------------------------------------
(* Specifications *)

SplitIdle ==
    /\ samples = <<>>
    /\ G = <<>>
    /\ sdimension = 0
    /\ iterations = 0
    /\ pc = "idle"
    /\ emb = <<>>
    /\ embIter = 0
    /\ return_cut = <<>>
    /\ best_score = 0
    /\ planes = 0
    /\ improved = <<>>
    /\ climbs = 0
    /\ left = <<>>
    /\ right = <<>>
    /\ candidate_cut = <<>>
    /\ candidate_score = 0

\* One call of IIDExponentialMLE.estimate_branch_lengths on a tree
MLESpecInit ==
    SplitIdle /\ TreeInit /\ MLEInit /\ LLIdle /\ CVIdle /\ ZeroOneIdle

MLESpec == MLESpecInit /\ [][MLENext]_vars

\* Calls of IIDExponentialMLE.model_log_likelihood on a tree with times
LLSpecInit ==
    SplitIdle /\ ScoredTreeInit /\ MLEIdle /\ LLInit /\ CVIdle /\ ZeroOneIdle

LLSpec == LLSpecInit /\ [][LLNext]_vars

\* perform_split alone: no tree, no estimator
SplitSpecInit ==
    SplitInit /\ TreeIdle /\ MLEIdle /\ LLIdle /\ CVIdle /\ ZeroOneIdle

SplitSpec == SplitSpecInit /\ [][SplitNext]_vars

\* The hill climb alone: graph_utilities.max_cut_improve_cut called at line
\* 147 on a graph and on any cut of it, and the return of lines 149-154. The
\* call is synchronous, with no suspension point and nothing running beside
\* it, so a step that can be taken is taken.
ClimbSpecInit ==
    ClimbInit /\ TreeIdle /\ MLEIdle /\ LLIdle /\ CVIdle /\ ZeroOneIdle

ClimbSpec == ClimbSpecInit /\ [][ClimbNext]_vars /\ WF_vars(ClimbNext)

\* The folds of one grid point of IIDExponentialMLEGridSearchCV
FoldSpecInit ==
    SplitIdle /\ MLEIdle /\ LLIdle /\ FoldInit /\ ZeroOneIdle

FoldSpec == FoldSpecInit /\ [][FoldNext]_vars

\* One call of estimate_branch_lengths of a cross-validated estimator: a
\* search of IIDExponentialMLEGridSearchCV, or an estimator of
\* BranchLengthEstimatorCV
CVSpecInit ==
    /\ SplitIdle /\ MLEIdle /\ LLIdle /\ ZeroOneIdle
    /\ CVInit \/ (GridIdle /\ TuneInit)

CVSpec == CVSpecInit /\ [][CVNext]_vars

\* One call of ZeroOneBLE.estimate_branch_lengths on a tree
ZeroOneSpecInit ==
    SplitIdle /\ MLEIdle /\ LLIdle /\ CVIdle /\ ZeroOneInit

ZeroOneSpec == ZeroOneSpecInit /\ [][ZeroOneNext]_vars

\* One call of estimate_branch_lengths of one estimator of the package on a
\* tree: of IIDExponentialMLE, of a cross-validated estimator, or of
\* ZeroOneBLE. The tree is handed to the one estimator that was constructed;
\* IIDExponentialMLE gets the trees the cross-validated estimators get.
EstimatorMLEInit ==
    /\ parent = CVTopology
    /\ \E n \in SearchCharacterCounts : states \in CVStates(parent, n)
    /\ times = [v \in TreeNodes |-> Zero]
    /\ MLEInit

EstimatorSpecInit ==
    \/ SplitIdle /\ EstimatorMLEInit /\ LLIdle /\ CVIdle /\ ZeroOneIdle
    \/ CVSpecInit
    \/ ZeroOneSpecInit

\* A step of IIDExponentialMLE when it is the estimator called, and not the
\* model of a fold or of a final fit
EstimateMLE ==
    /\ cv_pc = "idle" /\ tune_pc = "idle"
    /\ zero_one_outcome = "idle"
    /\ MLENext

EstimatorNext ==
    \/ EstimateMLE
    \/ CVNext
    \/ ZeroOneNext

EstimatorSpec == EstimatorSpecInit /\ [][EstimatorNext]_vars

----------------------------------------------------------------------------
(* Properties *)

\* C1: when perform_split has returned (left, right), the two lists share no
\* sample, left + right holds every sample exactly as often as samples does
\* (sorted(left + right) == sorted(samples)), and a sample that is not a node
\* of the connectivity graph is in right: left holds nodes of the graph only,
\* and every sample that is not in left is in right.
C1_SplitIsPartition ==
    pc = "done" =>
        /\ Range(left) \cap Range(right) = {}
        /\ SameSorted(left \o right, samples)
        /\ Range(left) \subseteq Nodes(G)
        /\ \A i \in Range(samples) : ~IsIn(i, left) => IsIn(i, right)

\* A split found by hyperplanes and hill climbing, with both sides inhabited.
C1_Witness ==
    /\ pc = "done"
    /\ planes > 0
    /\ climbs > 0
    /\ left # <<>>
    /\ right # <<>>

\* C2: when the connectivity graph has no edge, perform_split returns exactly
\* (samples, []) in its first step: no embedding is drawn, no hyperplane is
\* tried and the hill climb is never entered.
C2_NoEdgesReturnsAtOnce ==
    (pc # "start" /\ Edges(G) = {}) =>
        /\ pc = "done"
        /\ left = samples
        /\ right = <<>>
        /\ emb = <<>>
        /\ planes = 0
        /\ improved = <<>>
        /\ climbs = 0

\* Several samples, no edge between them, and the call has returned.
C2_Witness ==
    /\ pc = "done"
    /\ Len(samples) >= 2
    /\ Edges(G) = {}
    /\ left = samples

\* C3: when estimate_branch_lengths has returned, the root has time exactly
\* 0.0 and no child is earlier than its parent, whatever the solver left in
\* the node variables.
C3_TimesOrdered ==
    outcome = "returned" =>
        /\ times[Root] = Zero
        /\ \A n \in TreeNodes \ {Root} : TimeLeq(times[parent[n]], times[n])

\* The solver left a root value other than 0 and a child below its parent,
\* two edges under the root.
C3_Witness ==
    /\ outcome = "returned"
    /\ solved[Root] # 0
    /\ \E e \in TreeEdges(parent) :
          /\ e[1] # Root
          /\ solved[e[2]] < solved[e[1]]
          /\ TimeEq(times[e[2]], times[e[1]])

\* The time t in the units of the solver's values, rate being the fitted rate:
\* t is a quotient by rate, or the 0.0 of the root.
Scaled(t, rate) == IF t.den = rate THEN t.num ELSE t.num * rate

\* m * a <= 100 * x, for a minimum_branch_length m in hundredths (0..100)
\* and a >= 0, computed without leaving 32 bits
MblTimes(m, a, x) ==
    LET d == x - m * (a \div MblOne)
    IN  IF d >= MblOne THEN TRUE
        ELSE IF d < 0 THEN FALSE
        ELSE MblOne * d >= m * (a % MblOne)

\* The solver's values v violate no constraint of lines 122-133 by more than
\* tol.
WithinTolerance(p, v, m, tol) ==
    LET a == v[a_leaf(p)]
    IN  /\ v[Root] <= tol
        /\ -tol <= v[Root]
        /\ \A n \in TreeNodes \ {Root} :
              /\ MblTimes(m, a, v[n] - v[p[n]] + tol)
              /\ n \in Leaves(p) => (v[n] - a <= tol /\ a - v[n] <= tol)

\* The largest difference of two leaf times, in the units of the solver's
\* values.
LeafSpread ==
    LET ts == {Scaled(times[l], mutation_rate) : l \in Leaves(parent)}
    IN  Max(ts) - Min(ts)

\* C4, as claimed: the equality of the leaves in the solver's values survives
\* the rescaling and the clamping sweep, so that all leaves have the same time
\* in the times written to the tree.
C4_LeafEqualitySurvives ==
    (/\ outcome = "returned"
     /\ \A l \in Leaves(parent) : solved[l] = solved[a_leaf(parent)]) =>
        \A l1, l2 \in Leaves(parent) : TimeEq(times[l1], times[l2])

\* C4, amended: the leaves have the same time up to the tolerance the solver
\* met the constraints with.  When no constraint is violated by more than tol,
\* two leaf times differ by at most (depth + 3) * tol / rate; they are equal
\* when the constraints are met exactly (tol = 0).
C4_LeavesEqualWithinTolerance ==
    outcome = "returned" =>
        \A tol \in 0..2 :
            WithinTolerance(parent, solved, minimum_branch_length, tol) =>
                LeafSpread <= (get_edge_depth(parent) + 3) * tol

\* Constraints met exactly on a tree with several leaves at different depths.
C4_Witness ==
    /\ outcome = "returned"
    /\ WithinTolerance(parent, solved, minimum_branch_length, 0)
    /\ \E l1, l2 \in Leaves(parent) : DepthOf(parent, l1) < DepthOf(parent, l2)
    /\ \E n \in TreeNodes : n \notin Leaves(parent) /\ solved[n] > 0

\* Every entry of the character matrix is 0, or every entry is not 0.
Degenerate(p, s) ==
    \/ \A l \in Leaves(p) : \A c \in CharsOf(s[l]) : s[l][c] = 0
    \/ \A l \in Leaves(p) : \A c \in CharsOf(s[l]) : s[l][c] # 0

\* C5: on a degenerate character matrix estimate_branch_lengths raises the
\* degeneracy error and nothing else happens: no problem is built, the solver
\* is not called (so not called again either), no attribute is set.
C5_DegenerateRaisesBeforeSolve ==
    (outcome # "not called" /\ Degenerate(parent, states)) =>
        /\ outcome \in {"ValueError: no mutations", "ValueError: fully mutated"}
        /\ problems = 0
        /\ solves = 0
        /\ solved = <<>>
        /\ mutation_rate = None

\* Several leaves, every one of them mutated, and the call has raised.
C5_Witness ==
    /\ outcome = "ValueError: fully mutated"
    /\ Cardinality(Leaves(parent)) >= 2
    /\ \A l \in Leaves(parent) : \A c \in Chars : states[l][c] = 1

\* The ancestors of a node, the node included.
RECURSIVE AncestorsOrSelf(_, _)
AncestorsOrSelf(p, n) == IF n = Root THEN {Root} ELSE {n} \cup AncestorsOrSelf(p, p[n])

\* The number of edges of the path between two nodes.
Distance(p, u, v) ==
    LET common == AncestorsOrSelf(p, u) \cap AncestorsOrSelf(p, v)
    IN  DepthOf(p, u) + DepthOf(p, v) - 2 * Max({DepthOf(p, n) : n \in common})

\* The diameter of the tree: the longest path between two of its nodes.
Diameter(p) == Max({Distance(p, u, v) : u, v \in TreeNodes})

\* C6, as claimed: on a non-degenerate matrix the call raises the
\* infeasible-configuration error, before any solve, exactly when
\* minimum_branch_length * (diameter of the tree) >= 1.0.
C6_RaisesIffDiameterTooLarge ==
    (outcome # "not called" /\ ~Degenerate(parent, states)) =>
        /\ (Diameter(parent) * minimum_branch_length >= MblOne)
              <=> (outcome = "ValueError: minimum_branch_length too large")
        /\ outcome = "ValueError: minimum_branch_length too large" => solves = 0

\* C6, amended: on a non-degenerate matrix the call raises the
\* infeasible-configuration error, before any problem is built or solved,
\* exactly when minimum_branch_length * (edge depth of the tree) >= 1.0, the
\* edge depth being the number of edges of the longest root-to-leaf path; it
\* goes on to the solve otherwise.
C6_RaisesIffDepthTooLarge ==
    (outcome # "not called" /\ ~Degenerate(parent, states)) =>
        IF get_edge_depth(parent) * minimum_branch_length >= MblOne
        THEN /\ outcome = "ValueError: minimum_branch_length too large"
             /\ problems = 0
             /\ solves = 0
        ELSE /\ outcome # "ValueError: minimum_branch_length too large"
             /\ problems = 1
             /\ solves = 1

\* depth * minimum_branch_length is exactly 1.0 and the call has raised.
C6_Witness ==
    /\ outcome = "ValueError: minimum_branch_length too large"
    /\ get_edge_depth(parent) * minimum_branch_length = MblOne

\* C7, as claimed: after the solve the call fails with the solver-failure
\* error whenever the fitted rate is outside the open interval (1e-8, 15.0),
\* and writes the times only when the rate is inside it.
C7_RefusedOutsideOpenInterval ==
    solved # <<>> =>
        LET rate == solved[a_leaf(parent)]
        IN  /\ (rate <= MinMutationRate \/ rate >= MaxMutationRate)
                  => outcome = "IIDExponentialMLEError: rate refused"
            /\ outcome = "returned"
                  => (MinMutationRate < rate /\ rate < MaxMutationRate)

\* C7, amended: after the solve the call fails with the solver-failure error
\* whenever the fitted rate is below 1e-8 or above 15.0, and then leaves the
\* times of the tree alone; a rate in the closed interval [1e-8, 15.0], the
\* two bounds included, is accepted and the times are written.
C7_RefusedOutsideClosedInterval ==
    solved # <<>> =>
        LET rate == solved[a_leaf(parent)]
        IN  IF rate < MinMutationRate \/ rate > MaxMutationRate
            THEN /\ outcome = "IIDExponentialMLEError: rate refused"
                 /\ times = [n \in TreeNodes |-> Zero]
            ELSE /\ outcome = "returned"
                 /\ times # [n \in TreeNodes |-> Zero]

\* The fitted rate is exactly 15.0 and the times have been written.
C7_Witness ==
    /\ outcome = "returned"
    /\ mutation_rate = MaxMutationRate
    /\ times # [n \in TreeNodes |-> Zero]

\* edge_length * mutation_rate of the edge e, as a quotient in units of 1e-8
EdgeProduct(e) ==
    LET d == TimeSub(times[e[2]], times[e[1]])
    IN  [num |-> ll_rate * d.num, den |-> d.den]

\* The edge carries at least one mutation (missing states aside).
Mutated(e) == \E c \in Chars : states[e[1]][c] = 0 /\ states[e[2]][c] = 1

\* edge_length * mutation_rate < 1e-8
Short(e) == EdgeProduct(e).num < EdgeProduct(e).den

\* C8: model_log_likelihood returns -inf, and does not raise, whenever some
\* edge with a mutation has edge_length * mutation_rate < 1e-8, whatever the
\* order of the edges and the lengths of the other edges.
C8_ShortMutatedEdgeGivesNegInf ==
    (\E e \in TreeEdges(parent) : Mutated(e) /\ Short(e)) =>
        \A i \in 1..Len(ll_results) : ll_results[i] = NegInf

\* A mutated edge of a positive length below the threshold, beside a mutated
\* edge above it, and a call has returned.
C8_Witness ==
    /\ Len(ll_results) >= 1
    /\ \E e \in TreeEdges(parent) :
          Mutated(e) /\ Short(e) /\ EdgeProduct(e).num > 0
    /\ \E e \in TreeEdges(parent) : Mutated(e) /\ ~Short(e)

\* C9: a call of model_log_likelihood changes neither the times nor the
\* states of the tree nor an attribute of the estimator, and returns what
\* the call before it returned on the same tree and rate.
C9_ModelLogLikelihoodIsPure ==
    [][ll_results' # ll_results =>
          /\ UNCHANGED <<treeVars, mleVars, ll_rate>>
          /\ ll_results # <<>> =>
                ll_results'[Len(ll_results')] = ll_results[Len(ll_results)]]_vars

\* Two calls on a tree with a short mutated edge and another mutated edge.
C9_Witness ==
    /\ Len(ll_results) = 2
    /\ \E e \in TreeEdges(parent) : Mutated(e) /\ Short(e)
    /\ \E e \in TreeEdges(parent) : Mutated(e) /\ ~Short(e)

\* The log-likelihood r is a number and is not positive.
FiniteNonPositive(r) ==
    /\ r.kind = "finite"
    /\ r.log < 0 \/ (r.log = 0 /\ r.lin.num <= 0)

\* C10: model_log_likelihood returns a finite number that is not positive
\* whenever no edge has a negative length and every edge with a mutation has
\* edge_length * mutation_rate >= 1e-8; an edge without mutations, however
\* short, does not make the result -inf.
C10_FiniteNonPositive ==
    (/\ \A e \in TreeEdges(parent) : TimeLeq(times[e[1]], times[e[2]])
     /\ \A e \in TreeEdges(parent) : Mutated(e) => ~Short(e)) =>
        \A i \in 1..Len(ll_results) : FiniteNonPositive(ll_results[i])

\* A call has returned a negative number on a tree with a mutated edge at
\* the threshold and an unmutated edge of length 0.
C10_Witness ==
    /\ Len(ll_results) >= 1
    /\ ll_results[1].kind = "finite"
    /\ ll_results[1].log < 0
    /\ \E e \in TreeEdges(parent) :
          Mutated(e) /\ EdgeProduct(e).num = EdgeProduct(e).den
    /\ \E e \in TreeEdges(parent) :
          /\ ~Mutated(e)
          /\ states[e[2]][1] = 0
          /\ EdgeProduct(e).num = 0

\* C11: the cut score of the left set that the hill climb returns is never
\* lower than the score of the cut that the hyperplane sampling kept and
\* handed to it; this holds after every move of the hill climb as well.
C11_HillClimbNeverLowersScore ==
    /\ pc = "improve" => evaluate_cut(improved, G) >= evaluate_cut(return_cut, G)
    /\ pc = "done" => evaluate_cut(left, G) >= evaluate_cut(return_cut, G)

\* The hyperplanes kept a cut and the hill climb raised its score.
C11_Witness ==
    /\ pc = "done"
    /\ return_cut # <<>>
    /\ climbs > 0
    /\ evaluate_cut(left, G) > evaluate_cut(return_cut, G)

\* C12: when the graph is two samples joined by one edge of negative weight,
\* the two samples are returned in the same list, whatever the embedding and
\* the hyperplanes were.
C12_NegativePairStaysTogether ==
    (/\ pc = "done"
     /\ Len(samples) = 2
     /\ Weight(G, samples[1], samples[2]) < 0) =>
        \/ IsIn(samples[1], left) /\ IsIn(samples[2], left)
        \/ IsIn(samples[1], right) /\ IsIn(samples[2], right)

\* Two samples with a negative edge, every hyperplane tried, and the call
\* has returned.
C12_Witness ==
    /\ pc = "done"
    /\ Len(samples) = 2
    /\ Weight(G, samples[1], samples[2]) < 0
    /\ planes = 3 * (sdimension + 1)
    /\ sdimension > 0

\* The loop of lines 135-145 has run to its end on a graph with edges.
HyperplanesDone == pc \in {"improve", "done"} /\ planes > 0

FoldsBuilt == cv_pc = "split" /\ Len(params) = n_fold

\* The held-out blocks, one after the other.
RECURSIVE Concat(_)
Concat(blocks) ==
    IF blocks = <<>> THEN <<>> ELSE Head(blocks) \o Concat(Tail(blocks))

\* The least q with q * f >= n: ceil(n / f)
CeilDiv(n, f) == CHOOSE q \in 0..n : q * f >= n /\ (q - 1) * f < n

\* The held-out blocks are the consecutive slices of random_char_indices,
\* which holds each of 0..n-1 once: they are contiguous, pairwise disjoint
\* and cover every character index exactly once.
BlocksPartition ==
    /\ Len(held_out) = n_fold
    /\ Concat(held_out) = random_char_indices
    /\ Len(random_char_indices) = n_character(states)
    /\ \A c \in 0..(n_character(states) - 1) :
          \E j \in 1..Len(random_char_indices) :
             /\ random_char_indices[j] = c
             /\ \A h \in 1..Len(random_char_indices) :
                   random_char_indices[h] = c => h = j

\* C17 as stated: the blocks partition the permutation, every block except
\* the last has exactly ceil(n / n_fold) indices, and the last is shorter
\* by at most n_fold - 1.
C17_EveryBlockButLastIsFull ==
    FoldsBuilt =>
        LET size == CeilDiv(n_character(states), n_fold)
        IN  /\ BlocksPartition
            /\ \A k \in 1..(n_fold - 1) : Len(held_out[k]) = size
            /\ Len(held_out[n_fold]) <= size
            /\ size - Len(held_out[n_fold]) <= n_fold - 1

\* C17: the blocks partition the permutation; with size = ceil(n / n_fold),
\* block k holds the size indices from position (k - 1) * size on, or as
\* many as are left, which may be fewer or none for any of the later blocks;
\* all blocks together fall short of n_fold * size by at most n_fold - 1.
C17_BlocksFullUntilIndicesRunOut ==
    FoldsBuilt =>
        LET n == n_character(states)
            size == CeilDiv(n, n_fold)
        IN  /\ BlocksPartition
            /\ \A k \in 1..n_fold :
                  LET rest == n - (k - 1) * size
                  IN  Len(held_out[k]) =
                         IF rest >= size THEN size
                         ELSE IF rest > 0 THEN rest ELSE 0
            /\ n_fold * size - n <= n_fold - 1
            /\ n_fold * size - n >= 0

\* Five characters in four folds: the third block is short and the last
\* one is empty.
C17_Witness ==
    /\ FoldsBuilt
    /\ n_fold >= 2
    /\ \E k \in 1..(n_fold - 1) : Len(held_out[k]) \in 1..(split_size - 1)
    /\ Len(held_out[n_fold]) = 0

\* The k-th smallest member of a set of numbers, k from 1.
Nth(S, k) == CHOOSE x \in S : Cardinality({y \in S : y < x}) = k - 1

\* C18: every training tree carries, at every node, exactly the characters
\* outside the held-out block in their original order, every validation tree
\* exactly the held-out characters, both trees have the topology of the
\* original tree, and the original tree is as it was handed in.
C18_SplitKeepsCharactersAndTree ==
    /\ cv_pc \in {"start", "grid", "split"} =>
          /\ parent = CVTopology
          /\ states = FullStates(n_character(states))
          /\ \A v \in TreeNodes : times[v] = Zero
    /\ cv_pc = "split" =>
          \A k \in 1..Len(params) :
             LET held == held_out[k]
                 kept == {c \in 0..(n_character(states) - 1) : ~IsIn(c, held)}
                 train == params[k].train_tree
                 valid == params[k].valid_tree
             IN  /\ train.topology = parent
                 /\ valid.topology = parent
                 /\ \A v \in TreeNodes :
                       /\ Len(train.states[v]) = Cardinality(kept)
                       /\ \A j \in 1..Cardinality(kept) :
                             train.states[v][j] = states[v][Nth(kept, j) + 1]
                       /\ Len(valid.states[v]) = Len(held)
                       /\ \A j \in 1..Len(held) :
                             valid.states[v][j] = states[v][held[j] + 1]

\* A fold whose held-out block lists a later character before an earlier
\* one and leaves characters for the training tree.
C18_Witness ==
    /\ FoldsBuilt
    /\ \E k \in 1..n_fold :
          /\ Len(held_out[k]) >= 2
          /\ held_out[k][1] > held_out[k][2]
          /\ Len(params[k].train_tree.states[Root]) >= 2

\* The search has scored every grid point and made its choice.
Selected == cv_pc \in {"refit", "done"}

\* The grid points whose score no other grid point exceeds.
BestIndices ==
    {i \in 1..Len(grid) : \A j \in 1..Len(grid) : ~ScoreLess(grid[i], grid[j])}

\* C14 as stated: the final model gets the grid point of maximum
\* cross-validated score, the first of the grid among several of them.
C14_FirstOfBestIsRefitted ==
    Selected =>
        final_model.minimum_branch_length = minimum_branch_lengths[Min(BestIndices)]

\* C14: the final model gets a grid point of maximum cross-validated score,
\* and among several of them, all at -inf included, the one with the
\* greatest minimum_branch_length, wherever it stands in the grid.
C14_GreatestOfBestIsRefitted ==
    Selected =>
        final_model.minimum_branch_length =
            Max({minimum_branch_lengths[i] : i \in BestIndices})

\* Two grid points with the same finite score, the smaller one first: the
\* second one was refitted.
C14_Witness ==
    /\ cv_pc = "done"
    /\ Len(grid) = 2
    /\ grid[1].kind = "finite"
    /\ ScoreEq(grid[1], grid[2])
    /\ minimum_branch_lengths[1] < minimum_branch_lengths[2]
    /\ cv_fitted.minimum_branch_length = minimum_branch_lengths[2]

C20_ScoreIndependentOfSchedule ==
    /\ [](cv_pc = "pool" =>
            \A k \in 1..Len(fold_pc) :
               /\ \A j \in 1..Len(fold_pc) :
                     j # k => params[j].model # params[k].model
               /\ (fold_pc[k] = "returned" /\ params[k].train_tree.times # <<>>) =>
                     log_likelihood_folds[k] = HeldOutLogLikelihood(k))
    /\ [][Len(held_out_log_likelihoods') > Len(held_out_log_likelihoods) =>
            /\ fold_pc # <<>>
            /\ \A k \in 1..Len(fold_pc) : fold_pc[k] = "returned"
            /\ held_out_log_likelihoods'[Len(held_out_log_likelihoods')][1] =
                  Mean(log_likelihood_folds)]_vars

\* Two workers: the second fold has returned a number while the first one
\* is between its fit and its score, and the two models differ in their rate.
C20_Witness ==
    /\ cv_pc = "pool"
    /\ processes = 2
    /\ Len(fold_pc) = 2
    /\ fold_pc[1] = "fitted"
    /\ fold_pc[2] = "returned"
    /\ log_likelihood_folds[2].kind = "finite"
    /\ models[params[1].model].mutation_rate # models[params[2].model].mutation_rate

\* C16: when self._tune raises CharacterLevelCVError, each of the three
\* estimators ends with BranchLengthEstimatorError and nothing else, no
\* final model is fitted, no attribute is set and the times of the tree are
\* the ones it came with.
C16_TuneFailureSurfacesAsOneError ==
    tune_raised = "CharacterLevelCVError" =>
        /\ tune_outcome = "BranchLengthEstimatorError"
        /\ tune_pc = "raised"
        /\ final_fits = 0
        /\ tune_fitted = {}
        /\ \A v \in TreeNodes : times[v] = Zero

\* The driver fails after two trials whose models were fitted.
C16_Witness ==
    /\ tune_raised = "CharacterLevelCVError"
    /\ tune_outcome = "BranchLengthEstimatorError"
    /\ Len(trials) = 2
    /\ trials[1].score.kind = "finite"
    /\ trials[2].score.kind = "finite"

\* Without folds every trial of a tuned estimator is fitted on the characters
\* of the whole tree and scored on that same tree, with no validation tree.
TrialsOnWholeTree ==
    (tune_pc # "idle" /\ n_folds = 0) =>
        \A i \in 1..Len(trials) :
           /\ trials[i].tree_train = states
           /\ ~trials[i].valid_built
           /\ trials[i].scored_on \in {"tree_train", "model.log_likelihood", "nothing"}

LocalOptimum(g, cut) ==
    \A i \in Nodes(g) : evaluate_cut(Flip(cut, i), g) <= evaluate_cut(cut, g)

\* C22: the hill climb of perform_split always comes to an end, whatever the
\* graph and the cut it starts from, and the cut it returns is a local
\* optimum: moving any single node to the other side does not strictly
\* increase the cut score.
C22_HillClimbEndsAtLocalOptimum ==
    /\ (pc = "improve") ~> (pc = "done")
    /\ [](pc = "done" => LocalOptimum(G, left))

\* The hill climb has returned after two moves, from a cut with a negative
\* score that was not a local optimum.
C22_Witness ==
    /\ pc = "done"
    /\ climbs = 2
    /\ evaluate_cut(return_cut, G) < 0
    /\ ~LocalOptimum(G, return_cut)
    /\ LocalOptimum(G, left)

\* a is None, for a value a of any type
IsNone(a) == ToString(a) = ToString(None)

\* estimate_branch_lengths has raised.
EstimateRaised == outcome \notin {"not called", "returned"}

\* C25 as stated: when estimate_branch_lengths raises, the times of the tree
\* and the attributes mutation_rate and log_likelihood are what they were
\* before the call (here: the times the tree came with, None and None).
C25_FailureKeepsEverything ==
    EstimateRaised =>
        /\ times = [n \in TreeNodes |-> Zero]
        /\ IsNone(log_likelihood)
        /\ IsNone(mutation_rate)

\* C25: when estimate_branch_lengths raises, the times of the tree and the
\* attribute log_likelihood are what they were before the call; mutation_rate
\* is too, unless the call raised because the fitted rate is out of range:
\* then mutation_rate is the refused rate.
C25_FailureKeepsTimesAndLogLikelihood ==
    EstimateRaised =>
        /\ times = [n \in TreeNodes |-> Zero]
        /\ IsNone(log_likelihood)
        /\ IF outcome = "IIDExponentialMLEError: rate refused"
           THEN /\ ~IsNone(mutation_rate)
                /\ mutation_rate = solved[a_leaf(parent)]
                /\ mutation_rate < MinMutationRate \/ mutation_rate > MaxMutationRate
           ELSE IsNone(mutation_rate)

\* The solver gave a rate above 15.0: the call raised and the estimator now
\* holds that rate, with no log-likelihood and the tree as it was.
C25_Witness ==
    /\ outcome = "IIDExponentialMLEError: rate refused"
    /\ ~IsNone(mutation_rate)
    /\ mutation_rate = MaxMutationRate + 1
    /\ IsNone(log_likelihood)
    /\ times = [n \in TreeNodes |-> Zero]

\* The sums of the two parts of a list of fold results that are all numbers.
RECURSIVE LogSum(_)
LogSum(lls) == IF lls = <<>> THEN 0 ELSE Head(lls).log + LogSum(Tail(lls))

RECURSIVE LinSum(_)
LinSum(lls) == IF lls = <<>> THEN Zero ELSE QuotAdd(Head(lls).lin, LinSum(Tail(lls)))

\* A grid point has just been scored: its folds are the ones run last.
GridPointScored == cv_pc = "grid" /\ held_out_log_likelihoods # <<>>

\* C26: the score of a grid point is the arithmetic mean of the results of
\* its folds, which is -inf as soon as one fold gave -inf and a number
\* otherwise; and the grid point taken for the final fit has the score -inf
\* only when every grid point has the score -inf.
C26_NegInfFoldSinksGridPoint ==
    /\ GridPointScored =>
          LET i == Len(held_out_log_likelihoods)
              score == held_out_log_likelihoods[i][1]
              folds == log_likelihood_folds
          IN  /\ Len(folds) = n_fold
              /\ n_fold >= 1
              /\ grid[i] = score
              /\ IF \E k \in 1..Len(folds) : folds[k].kind = "-inf"
                 THEN score.kind = "-inf"
                 ELSE /\ score.kind = "finite"
                      /\ score.over = Len(folds)
                      /\ score.log = LogSum(folds)
                      /\ TimeEq(score.lin, LinSum(folds))
    /\ Selected =>
          \A i \in 1..Len(grid) :
             (/\ minimum_branch_lengths[i] = final_model.minimum_branch_length
              /\ grid[i].kind = "-inf") =>
                 \A j \in 1..Len(grid) : grid[j].kind = "-inf"

\* Two folds per grid point: the folds of the first grid point both gave a
\* number, one fold of the second gave a number and the other -inf, the second
\* grid point has the score -inf and the first one was taken and refitted.
C26_Witness ==
    /\ cv_pc = "done"
    /\ Len(grid) = 2
    /\ n_fold = 2
    /\ log_likelihood_folds[1].kind = "finite"
    /\ log_likelihood_folds[2].kind = "-inf"
    /\ grid[1].kind = "finite"
    /\ grid[2].kind = "-inf"
    /\ cv_fitted.minimum_branch_length = minimum_branch_lengths[1]

\* C23 as stated: no evaluation of a trial raises; an error in any of its
\* phases (state reconstruction, fit, validation tree, score) gives -inf.
C23_TrialNeverRaises ==
    \A i \in 1..Len(trials) :
       /\ TrialReturned(trials[i])
       /\ trials[i].failed_in # "nothing" => trials[i].score = NegInf

\* C23: an error while the states of the training tree are reconstructed or
\* while the model is fitted gives the score -inf, and so does any error in
\* the metric of IIDExponentialBayesianEmpiricalBayes; an error while the
\* validation tree is built or while the score is computed in _cv_metric_ble
\* leaves the metric as an exception, and ends the search.
C23_TrialRaisesOnlyOutsideTry ==
    /\ \A i \in 1..Len(trials) :
          IF trials[i].failed_in \in {"valid_tree", "score"}
             /\ estimator # "IIDExponentialBayesianEmpiricalBayes"
          THEN /\ ~TrialReturned(trials[i])
               /\ i = Len(trials)
               /\ tune_pc = "raised"
               /\ tune_outcome \in {"BranchLengthEstimatorError",
                                    trials[i].score.kind}
               /\ final_fits = 0
          ELSE /\ TrialReturned(trials[i])
               /\ trials[i].failed_in # "nothing" => trials[i].score = NegInf
    /\ (tune_pc \in {"fit", "done"}) =>
          \A i \in 1..Len(trials) : TrialReturned(trials[i])

\* A first trial whose fit raised got -inf and the search went on; the
\* second trial raised while its validation tree was scored and the search
\* ended with that exception.
C23_Witness ==
    /\ Len(trials) = 2
    /\ trials[1].failed_in = "fit"
    /\ trials[1].score = NegInf
    /\ trials[2].failed_in = "score"
    /\ trials[2].valid_built
    /\ tune_pc = "raised"
    /\ tune_outcome = "Exception"

\* The edges of the path from the root to node n that carry a mutation.
MutatedEdgesAbove(p, s, missing, n) ==
    {m \in AncestorsOrSelf(p, n) \ {Root} :
        \E c \in CharsOf(s[m]) :
           /\ s[p[m]][c] = 0
           /\ s[m][c] # 0
           /\ s[m][c] # MissingState \/ missing}

\* C27: ZeroOneBLE.estimate_branch_lengths returns on every tree, and then
\* every node of the tree has a time, which is the number of edges between
\* the root and the node that carry at least one mutation, a missing state
\* counting as a mutation exactly when include_missing is set: the root has
\* time 0, every edge has length 0 or 1 and no child is before its parent.
C27_ZeroOneTimesCountMutatedEdges ==
    /\ zero_one_outcome \in {"not called", "returned"}
    /\ zero_one_outcome = "returned" =>
          /\ DOMAIN times = TreeNodes
          /\ times[Root] = Zero
          /\ \A n \in TreeNodes :
                times[n] = Divide(Cardinality(MutatedEdgesAbove(
                                      parent, states, include_missing, n)), 1)
          /\ \A n \in TreeNodes \ {Root} :
                /\ times[n].num - times[parent[n]].num \in {0, 1}
                /\ TimeLeq(times[parent[n]], times[n])

\* A path of two edges that both carry a mutation when missing states count:
\* the upper edge mutates the second character, the lower one only loses the
\* first, and the lower node has time 2.
C27_Witness ==
    /\ zero_one_outcome = "returned"
    /\ include_missing
    /\ \E n \in TreeNodes \ {Root} :
          /\ parent[n] # Root
          /\ times[n] = Divide(2, 1)
          /\ states[parent[n]][1] = 0
          /\ states[n][1] = MissingState
          /\ states[n][2] = states[parent[n]][2]

\* The estimator whose estimate_branch_lengths has returned, if any.
Returned ==
    IF zero_one_outcome = "returned" THEN "ZeroOneBLE"
    ELSE IF tune_outcome = "returned" THEN estimator
    ELSE IF cv_outcome = "returned" THEN "IIDExponentialMLEGridSearchCV"
    ELSE IF outcome = "returned" THEN "IIDExponentialMLE"
    ELSE None

\* The fitted attributes the call has set on that estimator.
Exposed ==
    IF Returned = "ZeroOneBLE" THEN ZeroOneAttributes
    ELSE IF Returned \in TunedEstimators THEN tune_fitted
    ELSE IF Returned = "IIDExponentialMLEGridSearchCV" THEN DOMAIN cv_fitted
    ELSE IF Returned = "IIDExponentialMLE"
    THEN {a \in {"mutation_rate"} : ~IsNone(mutation_rate)}
         \cup {a \in {"log_likelihood"} : ~IsNone(log_likelihood)}
    ELSE {}

\* The tree has a time for every node.
TimesWritten == DOMAIN times = TreeNodes

====
